---------------------------- MODULE Spec2Model ----------------------------
(***************************************************************************)
(* Streaming response pipeline with inline PII detection (promptify).      *)
(*                                                                         *)
(* Strings are modelled as sequences of one-character strings, so that     *)
(* offsets, slices and lengths are those of the TypeScript code.           *)
(* Offsets are 0-based and half-open as in the code; SubSeq is 1-based.    *)
(* A UTF-16 unit outside printable ASCII that has no escape in TLA+ is     *)
(* written as its JavaScript escape, one element of the sequence:          *)
(* "\\u00a0" is the no-break space, "\\u000b" the vertical tab.            *)
(***************************************************************************)
EXTENDS Integers, Sequences, FiniteSets, TLC

(***************************************************************************)
(* Bounds of the model.                                                    *)
(***************************************************************************)
\* number of provider chunks of one streamed turn
MaxChunks == 2
\* config.piiDetection.maxBatchChars of the modelled deployment
MaxBatchChars == 3
\* number of detection tasks of one streamed turn
MaxTasks == 2
\* config.chat.contextWindowSize of the modelled deployment
ContextWindowSize == 2
\* number of messages concurrent turns insert into the conversation while
\* execute is between its awaits
MaxConcurrentInserts == 1
\* config.chat.maxMessagesPerConversation of the modelled deployment
MaxMessagesPerConversation == 2
\* config.chat.maxMessageLength of the modelled deployment
MaxMessageLength == 2
\* length of the texts handed to detectPii in the detector specification
MaxTextLen == 6
\* largest offset of the spans handed to mergeDetections
MaxOffset == 3
\* length of the buffers handed to extractBatchesFromBuffer
MaxBufferLen == 5
\* length of the contents handed to insertPiiTags
MaxContentLen == 2
\* number of pieces (tags, text) of the contents handed to validatePiiTags
MaxPieces == 4

(***************************************************************************)
(* String helpers (JavaScript String methods used by the code).            *)
(***************************************************************************)
\* WhiteSpace and LineTerminator of ECMAScript: what trim() removes and what
\* \s matches (TAB, LF, VT, FF, CR, SP, NBSP, the space separators, LS, PS,
\* ZWNBSP)
Whitespace ==
    {"\t", "\n", "\\u000b", "\f", "\r", " ", "\\u00a0", "\\u1680",
     "\\u2000", "\\u2001", "\\u2002", "\\u2003", "\\u2004", "\\u2005",
     "\\u2006", "\\u2007", "\\u2008", "\\u2009", "\\u200a",
     "\\u2028", "\\u2029", "\\u202f", "\\u205f", "\\u3000", "\\ufeff"}

\* s.slice(from, to) for 0 <= from, to clipped to the length
Slice(s, from, to) == SubSeq(s, from + 1, IF to > Len(s) THEN Len(s) ELSE to)

\* s.slice(from)
SliceFrom(s, from) == SubSeq(s, from + 1, Len(s))

\* !s.trim() : the string is empty or only whitespace
IsBlank(s) == \A i \in 1..Len(s) : s[i] \in Whitespace

\* s.trim()
Trim(s) ==
    IF IsBlank(s) THEN <<>>
    ELSE LET first == CHOOSE i \in 1..Len(s) :
                         /\ s[i] \notin Whitespace
                         /\ \A j \in 1..(i - 1) : s[j] \in Whitespace
             last  == CHOOSE i \in 1..Len(s) :
                         /\ s[i] \notin Whitespace
                         /\ \A j \in (i + 1)..Len(s) : s[j] \in Whitespace
         IN  SubSeq(s, first, last)

\* the first occurrence instead of the last
FirstIndexOf(s, c) ==
    IF \E i \in 1..Len(s) : s[i] = c
    THEN (CHOOSE i \in 1..Len(s) : s[i] = c /\ \A j \in 1..(i - 1) : s[j] # c) - 1
    ELSE -1

\* s.lastIndexOf(c), 0-based, -1 when absent
LastIndexOf(s, c) ==
    IF \E i \in 1..Len(s) : s[i] = c
    THEN (CHOOSE i \in 1..Len(s) : s[i] = c /\ \A j \in (i + 1)..Len(s) : s[j] # c) - 1
    ELSE -1

\* s.indexOf(v, from), 0-based, -1 when absent
IndexOf(s, v, from) ==
    LET starts == { i \in from..(Len(s) - Len(v)) : SubSeq(s, i + 1, i + Len(v)) = v }
    IN  IF starts = {} THEN -1
        ELSE CHOOSE i \in starts : \A j \in starts : i <= j

RECURSIVE Concat(_)
\* batches.join('')
Concat(ss) == IF ss = <<>> THEN <<>> ELSE Head(ss) \o Concat(Tail(ss))

(***************************************************************************)
(* Batch Extractor: extractBatchesFromBuffer.                              *)
(***************************************************************************)
RECURSIVE SplitLines(_, _, _)
\* complete.split(/\r?\n/): the separator "\r\n" or "\n" is dropped
SplitLines(s, i, cur) ==
    IF i > Len(s) THEN <<cur>>
    ELSE IF s[i] = "\n" THEN <<cur>> \o SplitLines(s, i + 1, <<>>)
    ELSE IF s[i] = "\r" /\ i < Len(s) /\ s[i + 1] = "\n"
         THEN <<cur>> \o SplitLines(s, i + 2, <<>>)
    ELSE SplitLines(s, i + 1, Append(cur, s[i]))

RECURSIVE ChunkLine(_, _, _, _)
\* the inner for-loop over j: pieces of maxBatchChars characters, "\n" on
\* the last piece of a line that is not the last line
ChunkLine(line, j, maxBatchChars, isLastLine) ==
    IF j >= Len(line) THEN <<>>
    ELSE LET chunk  == Slice(line, j, j + maxBatchChars)
             suffix == IF ~isLastLine /\ j + maxBatchChars >= Len(line)
                       THEN <<"\n">> ELSE <<>>
         IN  <<chunk \o suffix>> \o ChunkLine(line, j + maxBatchChars, maxBatchChars, isLastLine)

RECURSIVE LineBatches(_, _, _)
\* the for-loop over the lines of the completed region
LineBatches(lines, i, maxBatchChars) ==
    IF i > Len(lines) THEN <<>>
    ELSE LET line            == lines[i]
             isLastLine      == i = Len(lines)
             lineWithNewline == IF isLastLine THEN line ELSE line \o <<"\n">>
             here == IF Len(lineWithNewline) = 0 THEN <<>>
                     ELSE IF Len(line) <= maxBatchChars THEN <<lineWithNewline>>
                     ELSE ChunkLine(line, 0, maxBatchChars, isLastLine)
         IN  here \o LineBatches(lines, i + 1, maxBatchChars)

extractBatchesFromBuffer(buffer, maxBatchChars) ==
    IF Len(buffer) = 0 \/ maxBatchChars < 1
    THEN [batches |-> <<>>, remaining |-> buffer]
    ELSE LET lastNewline == LastIndexOf(buffer, "\n")
         IN  IF lastNewline < 0
             THEN IF Len(buffer) < maxBatchChars
                  THEN [batches |-> <<>>, remaining |-> buffer]
                  ELSE [batches   |-> <<Slice(buffer, 0, maxBatchChars)>>,
                        remaining |-> SliceFrom(buffer, maxBatchChars)]
             ELSE LET complete == Slice(buffer, 0, lastNewline + 1)
                      lines    == SplitLines(complete, 1, <<>>)
                  IN  [batches   |-> LineBatches(lines, 1, maxBatchChars),
                       remaining |-> SliceFrom(buffer, lastNewline + 1)]

(***************************************************************************)
(* sanitizeInput: input.replace(/<[^>]*>/g, '').trim()                     *)
(***************************************************************************)
RECURSIVE StripTags(_, _)
\* removes every "<", the characters other than ">" after it, and the ">";
\* a "<" with no ">" after it is kept
StripTags(s, i) ==
    IF i > Len(s) THEN <<>>
    ELSE IF s[i] = "<" /\ \E k \in (i + 1)..Len(s) : s[k] = ">"
         THEN LET close == CHOOSE k \in (i + 1)..Len(s) :
                              s[k] = ">" /\ \A j \in (i + 1)..(k - 1) : s[j] # ">"
              IN  StripTags(s, close + 1)
    ELSE <<s[i]>> \o StripTags(s, i + 1)

sanitizeInput(input) == Trim(StripTags(input, 1))

(***************************************************************************)
(* AI Detector: PiiDetectionService.                                       *)
(*                                                                         *)
(* The reply of the completion provider is an input of the model:          *)
(*   kind = "timeout"        the AbortController fired                     *)
(*   kind = "provider_error" createChatCompletion rejected                 *)
(*   kind = "empty"          choices[0].message.content is empty           *)
(*   kind = "malformed"      the content is not JSON                       *)
(*   kind = "nonarray"       the content is JSON but not an array          *)
(*   kind = "array"          the content is a JSON array of items          *)
(* An item is [piiType, value, hasConfidence, confidence]; piiType and     *)
(* value are strings as the provider wrote them, confidence is in          *)
(* hundredths (50 is 0.5).                                                 *)
(* A detection is [piiType, startOffset, endOffset, confidence]; its       *)
(* placeholder is a display label looked up by piiType and is left out.    *)
(***************************************************************************)
\* src/shared/config/env/server PII_TYPES: the allow-list of the parser
PII_TYPES == {"email", "phone", "ssn", "credit_card", "ip", "name", "address"}

\* the characters of a piiType
TypeChars(piiType) ==
    CASE piiType = "email"       -> <<"e", "m", "a", "i", "l">>
      [] piiType = "phone"       -> <<"p", "h", "o", "n", "e">>
      [] piiType = "ssn"         -> <<"s", "s", "n">>
      [] piiType = "credit_card" -> <<"c", "r", "e", "d", "i", "t", "_", "c", "a", "r", "d">>
      [] piiType = "ip"          -> <<"i", "p">>
      [] piiType = "name"        -> <<"n", "a", "m", "e">>
      [] piiType = "address"     -> <<"a", "d", "d", "r", "e", "s", "s">>

\* the UTF-16 units other than c that toLowerCase maps to the ASCII letter c:
\* its capital, and for k the KELVIN SIGN as well; no unit is mapped to "_"
UpperCaseOf(c) ==
    CASE c = "a" -> {"A"} [] c = "b" -> {"B"} [] c = "c" -> {"C"} [] c = "d" -> {"D"}
      [] c = "e" -> {"E"} [] c = "f" -> {"F"} [] c = "g" -> {"G"} [] c = "h" -> {"H"}
      [] c = "i" -> {"I"} [] c = "j" -> {"J"} [] c = "k" -> {"K", "\\u212a"}
      [] c = "l" -> {"L"} [] c = "m" -> {"M"} [] c = "n" -> {"N"} [] c = "o" -> {"O"}
      [] c = "p" -> {"P"} [] c = "q" -> {"Q"} [] c = "r" -> {"R"} [] c = "s" -> {"S"}
      [] c = "t" -> {"T"} [] c = "u" -> {"U"} [] c = "v" -> {"V"} [] c = "w" -> {"W"}
      [] c = "x" -> {"X"} [] c = "y" -> {"Y"} [] c = "z" -> {"Z"}
      [] OTHER -> {}

\* String(item.piiType).toLowerCase() === name, for a name of PII_TYPES, which
\* is made of ASCII lower-case letters and "_".  The lower-case form has the
\* ASCII letter c where the text has c, its capital or, for k, the KELVIN
\* SIGN; every other unit that toLowerCase changes becomes one or more units
\* of which at least one is outside ASCII, so that the form is no name.
LowersTo(t, name) ==
    /\ Len(t) = Len(name)
    /\ \A i \in 1..Len(t) : t[i] = name[i] \/ t[i] \in UpperCaseOf(name[i])

DefaultConfidence == 50

\* Math.max(0, Math.min(1, confidence)), in hundredths
ClampConfidence(c) == IF c < 0 THEN 0 ELSE IF c > 100 THEN 100 ELSE c

\* a.start < b.end && a.end > b.start against every used range
OverlapsUsed(start, end, usedRanges) ==
    \E k \in 1..Len(usedRanges) : start < usedRanges[k][2] /\ end > usedRanges[k][1]

RECURSIVE FindFrom(_, _, _, _)
\* the while-loop of findNonOverlappingOccurrence
FindFrom(text, value, usedRanges, fromIndex) ==
    IF fromIndex > Len(text) - Len(value) THEN <<>>
    ELSE LET idx == IndexOf(text, value, fromIndex)
         IN  IF idx = -1 THEN <<>>
             ELSE IF ~OverlapsUsed(idx, idx + Len(value), usedRanges)
                  THEN <<idx, idx + Len(value)>>
             ELSE FindFrom(text, value, usedRanges, idx + 1)

\* the first occurrence, whether it overlaps a used range or not
findFirstOccurrence(text, value, usedRanges) ==
    FindFrom(text, value, <<>>, 0)

\* <<start, end>> of the first occurrence free of usedRanges, <<>> for null
findNonOverlappingOccurrence(text, value, usedRanges) ==
    FindFrom(text, value, usedRanges, 0)

RECURSIVE RawItems(_)
\* the first loop of parseDetectionResponse: validation of the items
RawItems(items) ==
    IF items = <<>> THEN <<>>
    ELSE LET item       == Head(items)
             included   == { t \in PII_TYPES : LowersTo(item.piiType, TypeChars(t)) }
             value      == Trim(item.value)
             confidence == IF item.hasConfidence THEN item.confidence
                           ELSE DefaultConfidence
             here == IF included = {} \/ value = <<>> THEN <<>>
                     ELSE <<[piiType |-> CHOOSE t \in included : TRUE, value |-> value,
                             confidence |-> ClampConfidence(confidence)]>>
         IN  here \o RawItems(Tail(items))

RECURSIVE ResolveOffsets(_, _, _)
\* the second loop of parseDetectionResponse: offsets from the values
ResolveOffsets(text, rawItems, usedRanges) ==
    IF rawItems = <<>> THEN <<>>
    ELSE LET it   == Head(rawItems)
             span == findNonOverlappingOccurrence(text, it.value, usedRanges)
         IN  IF span = <<>>
             THEN ResolveOffsets(text, Tail(rawItems), usedRanges)
             ELSE <<[piiType |-> it.piiType, startOffset |-> span[1],
                     endOffset |-> span[2], confidence |-> it.confidence]>>
                  \o ResolveOffsets(text, Tail(rawItems), Append(usedRanges, span))

RECURSIVE InsertByStart(_, _)
InsertByStart(sorted, d) ==
    IF sorted = <<>> THEN <<d>>
    ELSE IF d.startOffset < Head(sorted).startOffset THEN <<d>> \o sorted
    ELSE <<Head(sorted)>> \o InsertByStart(Tail(sorted), d)

RECURSIVE SortByStart(_)
\* results.sort((a, b) => a.startOffset - b.startOffset), a stable sort
SortByStart(ds) ==
    IF ds = <<>> THEN <<>>
    ELSE InsertByStart(SortByStart(SubSeq(ds, 1, Len(ds) - 1)), ds[Len(ds)])

parseDetectionResponse(originalText, reply) ==
    IF reply.kind = "array"
    THEN SortByStart(ResolveOffsets(originalText, RawItems(reply.items), <<>>))
    ELSE <<>>

\* [threw, detections]: throws on timeout and on provider error only
callDetectionApi(text, reply) ==
    IF reply.kind \in {"timeout", "provider_error"}
    THEN [threw |-> TRUE, detections |-> <<>>]
    ELSE IF reply.kind = "empty"
    THEN [threw |-> FALSE, detections |-> <<>>]
    ELSE [threw |-> FALSE, detections |-> parseDetectionResponse(text, reply)]

\* whether detectPii calls the provider at all
CallsProvider(text) == ~IsBlank(text)

detectPii(text, reply) ==
    IF ~CallsProvider(text)
    THEN [detections |-> <<>>, success |-> TRUE, error |-> "none"]
    ELSE LET r == callDetectionApi(text, reply)
         IN  IF r.threw
             THEN [detections |-> <<>>, success |-> FALSE, error |-> reply.kind]
             ELSE [detections |-> r.detections, success |-> TRUE, error |-> "none"]

(***************************************************************************)
(* Regex Detector: detectPiiRegex.                                         *)
(*                                                                         *)
(* A pattern is a tree of nodes                                            *)
(*   [op |-> "set", chars]      one character of a class                   *)
(*   [op |-> "nset", chars]     one character outside a class              *)
(*   [op |-> "cat", parts]      concatenation                              *)
(*   [op |-> "alt", parts]      alternation, leftmost alternative first    *)
(*   [op |-> "rep", of, min, max]  greedy repetition, max = -1 unbounded   *)
(*   [op |-> "wb"]              \b                                         *)
(*   [op |-> "nla", of]         negative lookahead (?!...)                 *)
(* Ends(n, s, i) lists the positions at which a match of n starting at     *)
(* position i (0-based) can end, in the order in which the backtracking    *)
(* matcher of JavaScript tries them; the match is the first of the list.   *)
(***************************************************************************)
Digits == {"0", "1", "2", "3", "4", "5", "6", "7", "8", "9"}
Lower == {"a", "b", "c", "d", "e", "f", "g", "h", "i", "j", "k", "l", "m",
          "n", "o", "p", "q", "r", "s", "t", "u", "v", "w", "x", "y", "z"}
Upper == {"A", "B", "C", "D", "E", "F", "G", "H", "I", "J", "K", "L", "M",
          "N", "O", "P", "Q", "R", "S", "T", "U", "V", "W", "X", "Y", "Z"}
Letters == Lower \cup Upper
WordChars == Letters \cup Digits \cup {"_"}
\* \s
SpaceChars == Whitespace

Set(chars) == [op |-> "set", chars |-> chars]
NotSet(chars) == [op |-> "nset", chars |-> chars]
Cat(parts) == [op |-> "cat", parts |-> parts]
Alt(parts) == [op |-> "alt", parts |-> parts]
Rep(n, min, max) == [op |-> "rep", of |-> n, min |-> min, max |-> max]
Opt(n) == Rep(n, 0, 1)
WordBoundary == [op |-> "wb"]
NotAhead(n) == [op |-> "nla", of |-> n]
Ch(c) == Set({c})
Digit == Set(Digits)

IsWordAt(s, i) == i >= 1 /\ i <= Len(s) /\ s[i] \in WordChars

RECURSIVE Ends(_, _, _), CatEnds(_, _, _), AltEnds(_, _, _), RepEnds(_, _, _, _),
          RunEnds(_, _, _, _), EachEnd(_, _, _, _, _)

\* the continuation of every end in es, in order: cont = "cat" continues with
\* the remaining parts, cont = "rep" with one more iteration
EachEnd(es, s, cont, arg, count) ==
    IF es = <<>> THEN <<>>
    ELSE IF Len(es) = 1
    THEN (IF cont = "cat" THEN CatEnds(arg, s, Head(es))
          ELSE RepEnds(arg, s, Head(es), count))
    ELSE LET half == Len(es) \div 2
         IN  EachEnd(SubSeq(es, 1, half), s, cont, arg, count)
             \o EachEnd(SubSeq(es, half + 1, Len(es)), s, cont, arg, count)

CatEnds(parts, s, i) ==
    IF parts = <<>> THEN <<i>>
    ELSE EachEnd(Ends(Head(parts), s, i), s, "cat", Tail(parts), 0)

AltEnds(parts, s, i) ==
    IF parts = <<>> THEN <<>>
    ELSE Ends(Head(parts), s, i) \o AltEnds(Tail(parts), s, i)

\* a repetition of a single character class takes the longest run first and
\* gives the characters back one by one
RunEnds(n, s, i, count) ==
    LET room == IF n.max = -1 \/ n.max - count > Len(s) - i
                THEN Len(s) - i ELSE n.max - count
        run  == CHOOSE k \in 0..room :
                    /\ k < room => Ends(n.of, s, i + k) = <<>>
                    /\ \A j \in 1..k : Ends(n.of, s, i + j - 1) # <<>>
        least == IF count >= n.min THEN 0 ELSE n.min - count
        Down(from, to) == [k \in 1..(from - to + 1) |-> from - k + 1]
    IN  Down(i + run, i + least)

RepEnds(n, s, i, count) ==
    IF n.of.op \in {"set", "nset"} THEN RunEnds(n, s, i, count)
    ELSE LET more == IF n.max = -1 \/ count < n.max
                     THEN EachEnd(SelectSeq(Ends(n.of, s, i), LAMBDA e : e > i),
                                  s, "rep", n, count + 1)
                     ELSE <<>>
             here == IF count >= n.min THEN <<i>> ELSE <<>>
         IN  more \o here

Ends(n, s, i) ==
    CASE n.op = "set" -> IF i < Len(s) /\ s[i + 1] \in n.chars THEN <<i + 1>> ELSE <<>>
      [] n.op = "nset" -> IF i < Len(s) /\ s[i + 1] \notin n.chars THEN <<i + 1>> ELSE <<>>
      [] n.op = "cat" -> CatEnds(n.parts, s, i)
      [] n.op = "alt" -> AltEnds(n.parts, s, i)
      [] n.op = "rep" -> RepEnds(n, s, i, 0)
      [] n.op = "wb"  -> IF IsWordAt(s, i) # IsWordAt(s, i + 1) THEN <<i>> ELSE <<>>
      [] n.op = "nla" -> IF Ends(n.of, s, i) = <<>> THEN <<i>> ELSE <<>>

RECURSIVE ExecAll(_, _, _)
\* the while-loop over regex.exec with the g flag: <<start, end>> of every
\* match from lastIndex on, leftmost first
ExecAll(re, s, lastIndex) ==
    LET starts == { i \in lastIndex..Len(s) : Ends(re, s, i) # <<>> }
    IN  IF starts = {} THEN <<>>
        ELSE LET start == CHOOSE i \in starts : \A j \in starts : i <= j
                 end   == Head(Ends(re, s, start))
             IN  <<<<start, end>>>>
                 \o ExecAll(re, s, IF end = start THEN end + 1 ELSE end)

REGEX_PII_TYPES == <<"email", "phone", "ssn", "credit_card", "ip">>

\* [-.\s]
Separator == Set({"-", "."} \cup SpaceChars)
Octet == Alt(<<Cat(<<Ch("2"), Ch("5"), Set({"0", "1", "2", "3", "4", "5"})>>),
               Cat(<<Ch("2"), Set({"0", "1", "2", "3", "4"}), Digit>>),
               Cat(<<Opt(Set({"0", "1"})), Digit, Opt(Digit)>>)>>)
SsnArea == Alt(<<Cat(<<Set({"0", "1", "2", "3", "4", "5", "6", "7", "8"}), Digit, Digit>>),
                 Cat(<<Ch("7"), Set({"0", "1", "2", "3", "4", "5", "6"}), Digit>>),
                 Cat(<<Ch("7"), Ch("7"), Set({"0", "1", "2"})>>)>>)

\* REGEX_PATTERNS, in the order of the array
EmailPattern ==
    Cat(<<WordBoundary,
          Rep(Set(Letters \cup Digits \cup {".", "_", "%", "+", "-"}), 1, -1),
          Ch("@"),
          Rep(Set(Letters \cup Digits \cup {".", "-"}), 1, -1),
          Ch("."),
          Rep(Set(Letters), 2, -1),
          WordBoundary>>)
PhonePattern ==
    Cat(<<WordBoundary,
          Opt(Cat(<<Ch("+"), Ch("1"), Opt(Separator)>>)),
          Cat(<<Opt(Ch("(")), Set({"2", "3", "4", "5", "6", "7", "8", "9"}),
                Rep(Digit, 2, 2), Opt(Ch(")")), Opt(Separator)>>),
          Rep(Digit, 3, 3), Opt(Separator), Rep(Digit, 4, 4),
          WordBoundary>>)
\* the group (-?) and its back-reference \2 are written out as the two
\* alternatives the matcher tries, the dash first
SsnPattern ==
    Cat(<<WordBoundary,
          NotAhead(Alt(<<Cat(<<Ch("0"), Ch("0"), Ch("0")>>),
                         Cat(<<Ch("6"), Ch("6"), Ch("6")>>),
                         Cat(<<Ch("9"), Digit, Digit>>)>>)),
          SsnArea,
          Alt(<<Cat(<<Ch("-"), Rep(Digit, 2, 2), Ch("-"), Rep(Digit, 4, 4)>>),
                Cat(<<Rep(Digit, 2, 2), Rep(Digit, 4, 4)>>)>>),
          WordBoundary>>)
CreditCardPattern ==
    Cat(<<WordBoundary,
          Alt(<<Cat(<<Ch("4"), Rep(Digit, 12, 12), Opt(Rep(Digit, 3, 3))>>),
                Cat(<<Ch("5"), Set({"1", "2", "3", "4", "5"}), Rep(Digit, 14, 14)>>),
                Cat(<<Ch("3"), Set({"4", "7"}), Rep(Digit, 13, 13)>>),
                Cat(<<Ch("6"),
                      Alt(<<Cat(<<Ch("0"), Ch("1"), Ch("1")>>),
                            Cat(<<Ch("5"), Rep(Digit, 2, 2)>>)>>),
                      Rep(Digit, 12, 12)>>)>>),
          WordBoundary>>)
IpPattern ==
    Cat(<<WordBoundary,
          Rep(Cat(<<Octet, Ch(".")>>), 3, 3),
          Octet,
          WordBoundary>>)

REGEX_PATTERNS ==
    << [type |-> "email",       regex |-> EmailPattern],
       [type |-> "phone",       regex |-> PhonePattern],
       [type |-> "ssn",         regex |-> SsnPattern],
       [type |-> "credit_card", regex |-> CreditCardPattern],
       [type |-> "ip",          regex |-> IpPattern] >>

\* every match is kept, overlapping a used range or not
KeepEvery(matches, type, usedRanges) ==
    [results |-> [k \in 1..Len(matches) |->
                     [piiType |-> type, startOffset |-> matches[k][1],
                      endOffset |-> matches[k][2], confidence |-> 100]],
     used    |-> usedRanges \o matches]

RECURSIVE KeepFree(_, _, _)
\* the body of the while-loop: a match overlapping a used range is skipped
KeepFree(matches, type, usedRanges) ==
    IF matches = <<>> THEN [results |-> <<>>, used |-> usedRanges]
    ELSE LET m == Head(matches)
         IN  IF OverlapsUsed(m[1], m[2], usedRanges)
             THEN KeepFree(Tail(matches), type, usedRanges)
             ELSE LET rest == KeepFree(Tail(matches), type, Append(usedRanges, m))
                  IN  [results |-> <<[piiType |-> type, startOffset |-> m[1],
                                      endOffset |-> m[2], confidence |-> 100]>>
                                   \o rest.results,
                       used    |-> rest.used]

RECURSIVE RegexLoop(_, _, _, _)
\* the for-loop over REGEX_PATTERNS
RegexLoop(k, text, regexTypes, usedRanges) ==
    IF k > Len(REGEX_PATTERNS) THEN <<>>
    ELSE IF REGEX_PATTERNS[k].type \notin regexTypes
         THEN RegexLoop(k + 1, text, regexTypes, usedRanges)
    ELSE LET kept == KeepFree(ExecAll(REGEX_PATTERNS[k].regex, text, 0),
                              REGEX_PATTERNS[k].type, usedRanges)
         IN  kept.results \o RegexLoop(k + 1, text, regexTypes, kept.used)

\* enabledTypes is a set of type names
detectPiiRegex(text, enabledTypes) ==
    LET regexTypes == { REGEX_PII_TYPES[k] : k \in 1..Len(REGEX_PII_TYPES) }
                          \cap enabledTypes
    IN  IF regexTypes = {} THEN <<>>
        ELSE SortByStart(RegexLoop(1, text, regexTypes, <<>>))

(***************************************************************************)
(* mergeDetections: regex results win over AI results.                     *)
(***************************************************************************)
\* overlaps(a, b)
overlaps(a, b) == a.startOffset < b.endOffset /\ a.endOffset > b.startOffset

RECURSIVE MergeLoop(_, _)
\* the for-loop over the sorted AI results: an AI result free of every used
\* range is kept and its range becomes used
MergeLoop(aiSorted, usedRanges) ==
    IF aiSorted = <<>> THEN <<>>
    ELSE LET ai == Head(aiSorted)
             overlapsUsed == \E k \in 1..Len(usedRanges) :
                                 /\ ai.startOffset < usedRanges[k][2]
                                 /\ ai.endOffset > usedRanges[k][1]
         IN  IF overlapsUsed THEN MergeLoop(Tail(aiSorted), usedRanges)
             ELSE <<ai>> \o MergeLoop(Tail(aiSorted),
                                      Append(usedRanges, <<ai.startOffset, ai.endOffset>>))

\* every result of both lists, sorted: nothing is filtered
mergeDetectionsUnfiltered(regexResults, aiResults) ==
    SortByStart(regexResults \o aiResults)

\* AI results win: a regex result overlapping an AI result is dropped
mergeDetectionsAiFirst(regexResults, aiResults) ==
    SortByStart(SelectSeq(regexResults,
                          LAMBDA r : ~\E k \in 1..Len(aiResults) : overlaps(aiResults[k], r))
                \o aiResults)

mergeDetections(regexResults, aiResults) ==
    LET merged           == regexResults
        aiNonOverlapping == SelectSeq(aiResults,
                                LAMBDA ai : ~\E k \in 1..Len(regexResults) :
                                                overlaps(ai, regexResults[k]))
        usedRanges       == [k \in 1..Len(regexResults) |->
                                <<regexResults[k].startOffset, regexResults[k].endOffset>>]
    IN  SortByStart(merged \o MergeLoop(SortByStart(aiNonOverlapping), usedRanges))

(***************************************************************************)
(* Masker: PiiMasker.mask and maskPiiInText.                               *)
(***************************************************************************)
\* the bullet U+2022 (one UTF-16 unit), written as an asterisk
maskChar == "*"

RECURSIVE InsertByStartDesc(_, _)
InsertByStartDesc(sorted, d) ==
    IF sorted = <<>> THEN <<d>>
    ELSE IF d.startOffset > Head(sorted).startOffset THEN <<d>> \o sorted
    ELSE <<Head(sorted)>> \o InsertByStartDesc(Tail(sorted), d)

RECURSIVE SortByStartDesc(_)
\* [...detections].sort((a, b) => b.startOffset - a.startOffset), a stable sort
SortByStartDesc(ds) ==
    IF ds = <<>> THEN <<>>
    ELSE InsertByStartDesc(SortByStartDesc(SubSeq(ds, 1, Len(ds) - 1)), ds[Len(ds)])

\* c.repeat(n) for n >= 0
Repeat(c, n) == [i \in 1..n |-> c]

RECURSIVE MaskLoop(_, _, _)
\* the for-loop over the sorted detections; [threw, text]: String.repeat
\* throws a RangeError on a negative count
MaskLoop(maskedText, sortedDetections, c) ==
    IF sortedDetections = <<>> THEN [threw |-> FALSE, text |-> maskedText]
    ELSE LET startOffset    == Head(sortedDetections).startOffset
             endOffset      == Head(sortedDetections).endOffset
             originalLength == endOffset - startOffset
         IN  IF originalLength < 0 THEN [threw |-> TRUE, text |-> maskedText]
             ELSE MaskLoop(Slice(maskedText, 0, startOffset) \o Repeat(c, originalLength)
                               \o SliceFrom(maskedText, endOffset),
                           Tail(sortedDetections), c)

\* PiiMasker.mask
mask(text, detections) ==
    IF Len(detections) = 0 THEN [threw |-> FALSE, text |-> text]
    ELSE MaskLoop(text, SortByStartDesc(detections), maskChar)

\* maskPiiInText of shared/lib/pii-detection/mask
maskPiiInText(text, detections) ==
    IF Len(detections) = 0 THEN [threw |-> FALSE, text |-> text]
    ELSE MaskLoop(text, SortByStartDesc(detections), "*")

(***************************************************************************)
(* Tag Codec: insertPiiTags and parsePiiTags.                              *)
(***************************************************************************)
RECURSIVE ReplaceAll(_, _, _)
\* s.replace(/pat/g, rep) for a literal pat: leftmost matches, left to right
ReplaceAll(s, pat, rep) ==
    IF Len(s) < Len(pat) THEN s
    ELSE IF SubSeq(s, 1, Len(pat)) = pat
         THEN rep \o ReplaceAll(SubSeq(s, Len(pat) + 1, Len(s)), pat, rep)
    ELSE <<Head(s)>> \o ReplaceAll(Tail(s), pat, rep)

Amp == <<"&", "a", "m", "p", ";">>
Lt == <<"&", "l", "t", ";">>
Gt == <<"&", "g", "t", ";">>

\* nothing is escaped
escapeNothing(text) == text

escapeTagContent(text) ==
    ReplaceAll(ReplaceAll(ReplaceAll(text, <<"&">>, Amp), <<"<">>, Lt), <<">">>, Gt)

unescapeTagContent(text) ==
    ReplaceAll(ReplaceAll(ReplaceAll(text, Lt, <<"<">>), Gt, <<">">>), Amp, <<"&">>)

DigitChar(n) == <<"0", "1", "2", "3", "4", "5", "6", "7", "8", "9">>[n + 1]

\* confidence.toFixed(2), the confidence in hundredths
ToFixed2(c) == <<DigitChar(c \div 100), ".", DigitChar((c \div 10) % 10), DigitChar(c % 10)>>

\* randomUUID(): the id of the n-th tag inserted by a call, a version 4 UUID
\* of 36 units (hexadecimal digits in groups of 8, 4, 4, 4 and 12 with dashes
\* between them); the ids of one call differ in the last digit
Uuid(n) ==
    <<"0", "0", "0", "0", "0", "0", "0", "0", "-", "0", "0", "0", "0", "-",
      "4", "0", "0", "0", "-", "8", "0", "0", "0", "-",
      "0", "0", "0", "0", "0", "0", "0", "0", "0", "0", "0", DigitChar(n)>>

OpenTag(piiType, piiId, hasConfidence, confidence) ==
    <<"<", "p", "i", "i", " ", "t", "y", "p", "e", "=", "\"">> \o TypeChars(piiType)
    \o <<"\"", " ", "i", "d", "=", "\"">> \o piiId \o <<"\"">>
    \o (IF hasConfidence
        THEN <<" ", "c", "o", "n", "f", "i", "d", "e", "n", "c", "e", "=", "\"">>
             \o ToFixed2(confidence) \o <<"\"">>
        ELSE <<>>)
    \o <<">">>

CloseTag == <<"<", "/", "p", "i", "i", ">">>

RECURSIVE InsertLoop(_, _, _)
\* the for-loop over the detections sorted by startOffset descending
InsertLoop(taggedContent, sortedDetections, tagsInserted) ==
    IF sortedDetections = <<>> THEN taggedContent
    ELSE LET detection   == Head(sortedDetections)
             startOffset == detection.startOffset
             endOffset   == detection.endOffset
         IN  IF startOffset < 0 \/ endOffset > Len(taggedContent) \/ startOffset >= endOffset
             THEN InsertLoop(taggedContent, Tail(sortedDetections), tagsInserted)
             ELSE LET piiText     == Slice(taggedContent, startOffset, endOffset)
                      escapedText == escapeTagContent(piiText)
                      openTag     == OpenTag(detection.piiType, Uuid(tagsInserted),
                                             detection.hasConfidence, detection.confidence)
                  IN  InsertLoop(Slice(taggedContent, 0, startOffset) \o openTag \o escapedText
                                     \o CloseTag \o SliceFrom(taggedContent, endOffset),
                                 Tail(sortedDetections), tagsInserted + 1)

insertPiiTags(content, detections) ==
    IF Len(detections) = 0 THEN content
    ELSE InsertLoop(content, SortByStartDesc(detections), 0)

\* [^c]
Not(c) == NotSet({c})
Lit(cs) == Cat([i \in 1..Len(cs) |-> Ch(cs[i])])

\* /<pii\s+type="([^"]+)"\s+id="([^"]+)"(?:\s+confidence="[^"]+")?>([^<]*)<\/pii>/g
tagRegex ==
    Cat(<<Lit(<<"<", "p", "i", "i">>), Rep(Set(SpaceChars), 1, -1),
          Lit(<<"t", "y", "p", "e", "=", "\"">>), Rep(Not("\""), 1, -1), Ch("\""),
          Rep(Set(SpaceChars), 1, -1),
          Lit(<<"i", "d", "=", "\"">>), Rep(Not("\""), 1, -1), Ch("\""),
          Opt(Cat(<<Rep(Set(SpaceChars), 1, -1),
                    Lit(<<"c", "o", "n", "f", "i", "d", "e", "n", "c", "e", "=", "\"">>),
                    Rep(Not("\""), 1, -1), Ch("\"")>>)),
          Ch(">"), Rep(Not("<"), 0, -1), Lit(CloseTag)>>)

\* the 1-based position of the n-th double quote of s from position from on
RECURSIVE QuoteAt(_, _, _)
QuoteAt(s, from, n) ==
    LET q == CHOOSE i \in from..Len(s) : s[i] = "\"" /\ \A j \in from..(i - 1) : s[j] # "\""
    IN  IF n = 1 THEN q ELSE QuoteAt(s, q + 1, n - 1)

\* the capture groups of a match <<start, end>> of tagRegex: the values of the
\* attributes lie between the first four double quotes; the open tag ends
\* right after the fourth, unless the confidence attribute follows
Groups(s, match) ==
    LET q1 == QuoteAt(s, match[1] + 1, 1)
        q2 == QuoteAt(s, match[1] + 1, 2)
        q3 == QuoteAt(s, match[1] + 1, 3)
        q4 == QuoteAt(s, match[1] + 1, 4)
        gt == IF s[q4 + 1] = ">" THEN q4 + 1 ELSE QuoteAt(s, match[1] + 1, 6) + 1
    IN  [piiType        |-> SubSeq(s, q1 + 1, q2 - 1),
         piiId          |-> SubSeq(s, q3 + 1, q4 - 1),
         escapedContent |-> SubSeq(s, gt + 1, match[2] - Len(CloseTag))]

RECURSIVE ParseLoop(_, _, _, _, _)
\* the while-loop over tagRegex.exec
ParseLoop(taggedContent, matches, currentOffset, untaggedText, maskRegions) ==
    IF matches = <<>>
    THEN [text        |-> untaggedText \o SliceFrom(taggedContent, currentOffset),
          maskRegions |-> maskRegions]
    ELSE LET match       == Head(matches)
             g           == Groups(taggedContent, match)
             before      == untaggedText \o Slice(taggedContent, currentOffset, match[1])
             piiContent  == unescapeTagContent(g.escapedContent)
             startOffset == Len(before)
             endOffset   == startOffset + Len(piiContent)
         IN  ParseLoop(taggedContent, Tail(matches), match[2], before \o piiContent,
                       Append(maskRegions,
                              [startOffset |-> startOffset, endOffset |-> endOffset,
                               piiType |-> g.piiType, piiId |-> g.piiId,
                               originalLength |-> Len(piiContent)]))

parsePiiTags(taggedContent) ==
    ParseLoop(taggedContent, ExecAll(tagRegex, taggedContent, 0), 0, <<>>, <<>>)

(***************************************************************************)
(* Tag Codec: validatePiiTags.                                             *)
(***************************************************************************)
\* /<pii\s+/g
openTagRegex == Cat(<<Lit(<<"<", "p", "i", "i">>), Rep(Set(SpaceChars), 1, -1)>>)
\* /<\/pii>/g
closeTagRegex == Lit(CloseTag)

RECURSIVE NestedErrors(_, _)
\* the for-loop over the successive pairs of matches of tagRegex
NestedErrors(matches, i) ==
    IF i + 1 > Len(matches) - 1 THEN <<>>
    ELSE LET current == matches[i + 1]
             next    == matches[i + 2]
         IN  (IF next[1] < current[2] THEN <<"nested">> ELSE <<>>)
             \o NestedErrors(matches, i + 1)

\* [valid, errors]; an error is "mismatched" or "nested"
validatePiiTags(content) ==
    LET openTags  == Len(ExecAll(openTagRegex, content, 0))
        closeTags == Len(ExecAll(closeTagRegex, content, 0))
        mismatch  == IF openTags # closeTags THEN <<"mismatched">> ELSE <<>>
        matches   == ExecAll(tagRegex, content, 0)
        errors    == mismatch \o NestedErrors(matches, 0)
    IN  [valid |-> Len(errors) = 0, errors |-> errors]

(***************************************************************************)
(* Stream Orchestrator: ChatStreamUseCase.execute.                         *)
(***************************************************************************)
VARIABLES
    params,               \* the request: [content, userId]
    conversation,         \* the conversation in the database: [exists, userId, messages],
                          \* messages its rows [id, role, content], oldest first
    messages,             \* the messages handed to the provider (line 84): [role, content]
    limits,               \* what the collaborators answer: [rateOk, quotaOk]
    piiEnabled,           \* config.piiDetection.enabled
    pc,                   \* position of execute / start(controller)
    thrown,               \* the error execute rejected with, "none" otherwise
    userMessage,          \* the user message row: "none", "persisted", "deleted"
    providerCalled,       \* createChatCompletionStream was called
    chunksDone,           \* number of provider chunks consumed
    stream,               \* the ReadableStream: "none", "open", "cancelled", "closed"
    events,               \* the events enqueued on the stream, in order
    assistantContent,
    contentBuffer,
    sentOriginalLength,
    tokens,               \* [prompt, completion]
    allDetections,
    detectionPromises,    \* the detection tasks: [text, baseOffset, status]
    assistantMessageId,   \* "none" or the id of the assistant message row
    persistCall,          \* [called, detections, answered, stored]: the persistDetections call
    error,                \* what the catch block of start caught, "none" otherwise
    deleteAttempted,      \* messageRepo.deleteMessage was called
    piiCost,              \* the cost tracker's row: [requestCount, errorCount]
    pendingTracks,        \* the track calls whose upsert has not answered yet, counted
                          \* by params.success
    detectText,           \* the text of a direct call of the detectors
    detectReply,          \* the provider's reply to that call
    detectResult,         \* what detectPii returned: [detections, success, error]
    detectPhase,          \* "none", "called", "returned"
    libInput,             \* the arguments of a direct call of a library function
    libOutput,            \* what that call returned
    libPhase,             \* "none", "returned"
    rateLimiter,          \* the RateLimiter: [limit, requests]
    now,                  \* Date.now(), in milliseconds
    rateLog               \* the calls of the rate limiter made so far:
                          \* [call, userId, at, allowed], call "enforce" or "reset"

vars == <<params, conversation, messages, limits, piiEnabled, pc, thrown, userMessage,
          providerCalled, chunksDone, stream, events, assistantContent,
          contentBuffer, sentOriginalLength, tokens, allDetections,
          detectionPromises, assistantMessageId, persistCall, error,
          deleteAttempted, piiCost, pendingTracks, detectText, detectReply, detectResult,
          detectPhase, libInput, libOutput, libPhase, rateLimiter, now, rateLog>>

\* the request contents the model draws from
Contents == { <<>>, <<" ">>, <<"<", "b", ">", "\\u00a0", "\f">>, <<"<", "b", ">", "h", " ">> }
Users == {"u1", "u2"}
MessageCounts == {MaxMessagesPerConversation - 1, MaxMessagesPerConversation}

\* the rows of a conversation of n messages before the turn: user and
\* assistant messages in turn
History(n) ==
    [k \in 1..n |-> [id      |-> "h" \o ToString(k),
                     role    |-> IF k % 2 = 1 THEN "user" ELSE "assistant",
                     content |-> <<"x">>]]

\* no row of the conversation table has the id
NoConversation == [exists |-> FALSE, userId |-> "", messages |-> <<>>]
Conversations ==
    {NoConversation}
    \cup { [exists |-> TRUE, userId |-> u, messages |-> History(n)] :
             u \in Users, n \in MessageCounts }

\* MessageRepository.findConversation: the row with the count of its messages
\* (null is a row that does not exist)
findConversation(conv) ==
    [exists |-> conv.exists, userId |-> conv.userId, messageCount |-> Len(conv.messages)]

\* MessageRepository.findContextMessages: the last limit messages, oldest first
findContextMessages(conv, limit) ==
    LET rows  == conv.messages
        first == IF Len(rows) > limit THEN Len(rows) - limit + 1 ELSE 1
    IN  [k \in 1..(Len(rows) - first + 1) |->
            [role |-> rows[first + k - 1].role, content |-> rows[first + k - 1].content]]

\* MessageRepository.createMessage and deleteMessage on the conversation
createMessage(conv, row) == [conv EXCEPT !.messages = Append(@, row)]
deleteMessage(conv, id) ==
    [conv EXCEPT !.messages = SelectSeq(@, LAMBDA row : row.id # id)]

\* the provider deltas the model draws from
Deltas == { <<"a", "P">>, <<"\n">>, <<"P", "\r", "\n", "P", "\n">> }
\* usage reported by the provider's usage chunk
ProviderUsage == [prompt |-> 3, completion |-> 4]

ItemP == [piiType |-> <<"n", "a", "m", "e">>, value |-> <<"P">>, hasConfidence |-> TRUE,
          confidence |-> 90]
\* the detector replies the streaming model draws from
StreamReplies ==
    { [kind |-> "timeout",   items |-> <<>>],
      [kind |-> "malformed", items |-> <<>>],
      [kind |-> "array",     items |-> <<ItemP>>],
      [kind |-> "array",     items |-> <<ItemP, ItemP>>] }

RECURSIVE ContentLength(_)
\* the characters of the contents of a list of messages
ContentLength(msgs) ==
    IF msgs = <<>> THEN 0 ELSE Len(Head(msgs).content) + ContentLength(Tail(msgs))

\* chatClient.estimateTokenCount(messages), by the length of the contents
EstimateTokenCount(msgs) == ContentLength(msgs) + 1

TypedErrors == {"ValidationError", "ConversationNotFoundError", "ForbiddenError",
                "RateLimitExceededError", "QuotaExceededError"}

\* lines 51-62 of execute: the checks on what findConversation answered
ConversationOutcome(p, conv) ==
    IF ~conv.exists THEN "ConversationNotFoundError"
    ELSE IF conv.userId # p.userId THEN "ForbiddenError"
    ELSE IF conv.messageCount >= MaxMessagesPerConversation THEN "ValidationError"
    ELSE "none"

\* the quota is not looked at
QuotaOutcomeIgnored(lim) == "none"
\* lines 70-74 of execute: what enforceQuota answered
QuotaOutcome(lim) == IF ~lim.quotaOk THEN "QuotaExceededError" ELSE "none"


NoResult == [detections |-> <<>>, success |-> FALSE, error |-> "none"]
NoReply == [kind |-> "none", items |-> <<>>]
NoCall == [fn |-> "none"]

\* the rate limiter behind limits.rateOk is not looked into
NoLimiter == [limit |-> 0, requests |-> <<>>]
LimiterIdle ==
    /\ rateLimiter = NoLimiter
    /\ now = 0
    /\ rateLog = <<>>

\* no library function is called directly
LibIdle ==
    /\ libInput = NoCall
    /\ libOutput = NoCall
    /\ libPhase = "none"
    /\ LimiterIdle

\* the state of a turn before execute is called
TurnInit ==
    /\ pc = "idle"
    /\ thrown = "none"
    /\ userMessage = "none"
    /\ providerCalled = FALSE
    /\ chunksDone = 0
    /\ stream = "none"
    /\ events = <<>>
    /\ assistantContent = <<>>
    /\ contentBuffer = <<>>
    /\ sentOriginalLength = 0
    /\ tokens = [prompt |-> 0, completion |-> 0]
    /\ allDetections = <<>>
    /\ detectionPromises = <<>>
    /\ assistantMessageId = "none"
    /\ persistCall = [called |-> FALSE, detections |-> <<>>, answered |-> FALSE,
                      stored |-> FALSE]
    /\ error = "none"
    /\ deleteAttempted = FALSE
    /\ piiCost = [requestCount |-> 0, errorCount |-> 0]
    /\ pendingTracks = [success \in BOOLEAN |-> 0]
    /\ messages = <<>>

Init ==
    /\ params \in [content : Contents, userId : {"u1"}]
    /\ conversation \in Conversations
    /\ limits \in [rateOk : BOOLEAN, quotaOk : BOOLEAN]
    /\ piiEnabled \in BOOLEAN
    /\ TurnInit
    /\ detectText = <<>>
    /\ detectReply = NoReply
    /\ detectResult = NoResult
    /\ detectPhase = "none"
    /\ LibIdle

streamVars == <<events, assistantContent, contentBuffer, sentOriginalLength, tokens,
                allDetections, detectionPromises, assistantMessageId, persistCall,
                error, deleteAttempted, piiCost, pendingTracks, chunksDone>>
inputVars == <<params, limits, piiEnabled>>
requestVars == <<params, conversation, messages, limits, piiEnabled>>
libVars == <<libInput, libOutput, libPhase, rateLimiter, now, rateLog>>
callVars == <<detectText, detectReply, detectResult, detectPhase,
              libInput, libOutput, libPhase, rateLimiter, now>>
detectorVars == <<detectText, detectReply, detectResult, detectPhase,
                  libInput, libOutput, libPhase, rateLimiter, now, rateLog>>

\* execute is called: sanitizeInput and the empty check (lines 45-48), then
\* the call of findConversation (line 50)
Execute ==
    /\ pc = "idle"
    /\ IF Len(sanitizeInput(params.content)) = 0
       THEN pc' = "rejected" /\ thrown' = "ValidationError"
       ELSE pc' = "findConversation" /\ UNCHANGED thrown
    /\ UNCHANGED <<userMessage, providerCalled, stream>>
    /\ UNCHANGED requestVars
    /\ UNCHANGED detectorVars
    /\ UNCHANGED streamVars

\* findConversation settles (line 50).  The query failed and execute rejects
\* with its error; or it answered: the checks of lines 51-62,
\* rateLimiter.enforce (lines 64-68), which has run whatever follows, and the
\* call of enforceQuota (line 71)
FindConversation ==
    /\ pc = "findConversation"
    /\ \E ok \in BOOLEAN :
         LET outcome == ConversationOutcome(params, findConversation(conversation))
         IN  IF ~ok
             THEN /\ pc' = "rejected"
                  /\ thrown' = "Error"
                  /\ UNCHANGED rateLog
             ELSE IF outcome # "none"
             THEN /\ pc' = "rejected"
                  /\ thrown' = outcome
                  /\ UNCHANGED rateLog
             ELSE /\ rateLog' = Append(rateLog, [call |-> "enforce",
                                                 userId |-> params.userId, at |-> now,
                                                 allowed |-> limits.rateOk])
                  /\ IF limits.rateOk
                     THEN pc' = "enforceQuota" /\ UNCHANGED thrown
                     ELSE pc' = "rejected" /\ thrown' = "RateLimitExceededError"
    /\ UNCHANGED <<userMessage, providerCalled, stream>>
    /\ UNCHANGED requestVars
    /\ UNCHANGED callVars
    /\ UNCHANGED streamVars

\* enforceQuota answers (lines 70-74), then the call of createMessage (line 76)
EnforceQuota ==
    /\ pc = "enforceQuota"
    /\ LET outcome == QuotaOutcome(limits)
       IN  IF outcome # "none"
           THEN pc' = "rejected" /\ thrown' = outcome
           ELSE pc' = "createMessage" /\ UNCHANGED thrown
    /\ UNCHANGED <<userMessage, providerCalled, stream>>
    /\ UNCHANGED requestVars
    /\ UNCHANGED detectorVars
    /\ UNCHANGED streamVars

\* createMessage of the user message answers (lines 76-81): the row exists,
\* or the insert failed and execute rejects; then the call of
\* findContextMessages (line 83)
CreateMessage ==
    /\ pc = "createMessage"
    /\ \E ok \in BOOLEAN :
         IF ok
         THEN /\ conversation' = createMessage(conversation,
                                      [id |-> "m1", role |-> "user",
                                       content |-> sanitizeInput(params.content)])
              /\ userMessage' = "persisted"
              /\ pc' = "findContextMessages"
              /\ UNCHANGED thrown
         ELSE /\ pc' = "rejected"
              /\ thrown' = "Error"
              /\ UNCHANGED <<conversation, userMessage>>
    /\ UNCHANGED <<providerCalled, stream, messages>>
    /\ UNCHANGED inputVars
    /\ UNCHANGED detectorVars
    /\ UNCHANGED streamVars

\* [...contextMessages, { role: 'user', content: sanitizedContent }] (line 84)
PromptMessages(contextMessages, sanitizedContent) ==
    contextMessages \o <<[role |-> "user", content |-> sanitizedContent]>>

\* findContextMessages answers (line 83): messages (line 84), the stream is
\* constructed and start runs up to the call of the provider (lines 89-150);
\* or the query failed and execute rejects, the user message staying
FindContextMessages ==
    /\ pc = "findContextMessages"
    /\ \E ok \in BOOLEAN :
         IF ok
         THEN /\ messages' = PromptMessages(findContextMessages(conversation, ContextWindowSize),
                                            sanitizeInput(params.content))
              /\ pc' = "streaming"
              /\ providerCalled' = TRUE
              /\ stream' = "open"
              /\ UNCHANGED thrown
         ELSE /\ pc' = "rejected"
              /\ thrown' = "Error"
              /\ UNCHANGED <<messages, providerCalled, stream>>
    /\ UNCHANGED <<userMessage, conversation>>
    /\ UNCHANGED inputVars
    /\ UNCHANGED detectorVars
    /\ UNCHANGED streamVars

\* the rows inserted by concurrent turns
ConcurrentRows(conv) == SelectSeq(conv.messages, LAMBDA row : row.role = "concurrent")

\* another execute on the same conversation has its createMessage answered
\* (line 76) while this execute waits on one of its awaits
ConcurrentTurnInserts ==
    /\ pc \in {"findConversation", "enforceQuota", "createMessage", "findContextMessages"}
    /\ conversation.exists
    /\ Len(ConcurrentRows(conversation)) < MaxConcurrentInserts
    /\ conversation' = createMessage(conversation,
                            [id |-> "c" \o ToString(Len(ConcurrentRows(conversation)) + 1),
                             role |-> "concurrent", content |-> <<"o", "o">>])
    /\ UNCHANGED <<pc, thrown, userMessage, providerCalled, stream, messages>>
    /\ UNCHANGED inputVars
    /\ UNCHANGED detectorVars
    /\ UNCHANGED streamVars

\* sendEvent (lines 101-103): controller.enqueue throws a TypeError unless
\* the stream is still readable
EnqueueThrows == stream # "open"

ContentEvent(c) == [type |-> "content", content |-> c]
MaskEvent(d) == [type |-> "pii_mask", startOffset |-> d.startOffset,
                 endOffset |-> d.endOffset, piiType |-> d.piiType,
                 originalLength |-> d.endOffset - d.startOffset]
DoneEvent(total) == [type |-> "done", userMessageId |-> "m1",
                     assistantMessageId |-> "m2", totalTokens |-> total]
ErrorEvent == [type |-> "error", error |-> "Failed to get AI response"]

\* the catch block emits the error event and leaves the stream open
CatchBlockLeavesOpen(cause) ==
    /\ error' = cause
    /\ IF EnqueueThrows
       THEN /\ pc' = "escaped"
            /\ UNCHANGED <<events, stream>>
       ELSE /\ events' = Append(events, ErrorEvent)
            /\ pc' = "failed"
            /\ UNCHANGED stream

\* the catch block of start (lines 221-228) up to its await
CatchBlock(cause) ==
    /\ error' = cause
    /\ IF EnqueueThrows
       THEN /\ pc' = "escaped"
            /\ UNCHANGED <<events, stream>>
       ELSE /\ events' = Append(events, ErrorEvent)
            /\ IF assistantMessageId = "none"
               THEN pc' = "catchDelete" /\ UNCHANGED stream
               ELSE pc' = "failed" /\ stream' = "closed"

\* how the promise of a detection task settles (try/catch of lines 108-143)
TaskSettlesNoCatch(threw) == IF threw THEN "rejected" ELSE "resolved"
TaskSettles(threw) == "resolved"

RECURSIVE NewTasks(_, _)
\* the loop of lines 165-169 with the guard of runDetectionAsync (line 106)
NewTasks(batches, offset) ==
    IF batches = <<>> THEN <<>>
    ELSE LET batch == Head(batches)
             here  == IF ~piiEnabled \/ IsBlank(batch) THEN <<>>
                      ELSE <<[text |-> batch, baseOffset |-> offset, status |-> "pending"]>>
         IN  here \o NewTasks(Tail(batches), offset + Len(batch))

\* sentOriginalLength += c.length (line 155)
NextSentLengthByChunk(sent, c) == sent + 1
NextSentLength(sent, c) == sent + Len(c)

\* the base offset of the batches of one extraction (line 159)
BaseOffset(sent, buffer) == sent - Len(buffer)

\* one provider chunk carrying a content delta (lines 150-171)
ContentChunk ==
    /\ pc = "streaming"
    /\ chunksDone < MaxChunks
    /\ chunksDone' = chunksDone + 1
    /\ \E c \in Deltas :
         /\ assistantContent' = assistantContent \o c
         /\ IF EnqueueThrows
            THEN /\ CatchBlock("closed_stream")
                 /\ UNCHANGED <<sentOriginalLength, contentBuffer, detectionPromises>>
            ELSE /\ events' = Append(events, ContentEvent(c))
                 /\ sentOriginalLength' = NextSentLength(sentOriginalLength, c)
                 /\ IF piiEnabled
                    THEN LET buffer     == contentBuffer \o c
                             baseOffset == BaseOffset(sentOriginalLength', buffer)
                             ex == extractBatchesFromBuffer(buffer, MaxBatchChars)
                         IN  /\ contentBuffer' = ex.remaining
                             /\ detectionPromises' =
                                    detectionPromises \o NewTasks(ex.batches, baseOffset)
                    ELSE UNCHANGED <<contentBuffer, detectionPromises>>
                 /\ UNCHANGED <<pc, stream, error>>
         /\ Len(detectionPromises') <= MaxTasks
    /\ UNCHANGED <<tokens, allDetections, assistantMessageId, persistCall,
                   deleteAttempted, piiCost, pendingTracks, thrown, userMessage, providerCalled>>
    /\ UNCHANGED requestVars
    /\ UNCHANGED detectorVars

\* one provider chunk carrying usage and no content (lines 172-175)
UsageChunk ==
    /\ pc = "streaming"
    /\ chunksDone < MaxChunks
    /\ chunksDone' = chunksDone + 1
    /\ tokens' = ProviderUsage
    /\ UNCHANGED <<events, assistantContent, contentBuffer, sentOriginalLength,
                   allDetections, detectionPromises, assistantMessageId, persistCall,
                   error, deleteAttempted, piiCost, pendingTracks, pc, stream, thrown, userMessage,
                   providerCalled>>
    /\ UNCHANGED requestVars
    /\ UNCHANGED detectorVars

\* the provider stream throws (for await, line 150)
ProviderThrows ==
    /\ pc = "streaming"
    /\ CatchBlock("provider")
    /\ UNCHANGED <<assistantContent, contentBuffer, sentOriginalLength, tokens,
                   allDetections, detectionPromises, assistantMessageId, persistCall,
                   deleteAttempted, piiCost, pendingTracks, chunksDone, thrown, userMessage,
                   providerCalled>>
    /\ UNCHANGED requestVars
    /\ UNCHANGED detectorVars

\* the provider stream ends: the loop is left for Promise.all (line 178)
ProviderEnds ==
    /\ pc = "streaming"
    /\ pc' = "join"
    /\ UNCHANGED <<thrown, userMessage, providerCalled, stream>>
    /\ UNCHANGED streamVars
    /\ UNCHANGED requestVars
    /\ UNCHANGED detectorVars

\* Promise.all(detectionPromises) settles once no task is pending (line 178)
AllSettledNoJoin(promises) == TRUE
AllSettled(promises) == \A i \in 1..Len(promises) : promises[i].status # "pending"

\* await Promise.all(detectionPromises) and the token counts (lines 178-186)
Join ==
    /\ pc = "join"
    /\ AllSettled(detectionPromises)
    /\ IF \E i \in 1..Len(detectionPromises) : detectionPromises[i].status = "rejected"
       THEN /\ CatchBlock("detection")
            /\ UNCHANGED tokens
       ELSE /\ pc' = "createAssistant"
            /\ tokens' = IF tokens.prompt = 0 /\ tokens.completion = 0
                         THEN [prompt     |-> EstimateTokenCount(messages),
                               completion |-> EstimateTokenCount(
                                                  <<[role    |-> "assistant",
                                                     content |-> assistantContent]>>)]
                         ELSE tokens
            /\ UNCHANGED <<events, stream, error>>
    /\ UNCHANGED <<assistantContent, contentBuffer, sentOriginalLength,
                   allDetections, detectionPromises, assistantMessageId, persistCall,
                   deleteAttempted, piiCost, pendingTracks, chunksDone, thrown, userMessage,
                   providerCalled>>
    /\ UNCHANGED requestVars
    /\ UNCHANGED detectorVars

\* a failed batch insert reaches the use case as a rejection
PersistFailureSurfacesAlways(stored) == ~stored
\* persistDetections(...).catch(...) is not awaited (lines 196-203), and
\* PiiDetectionRepository.persist logs a failed insert without rethrowing:
\* whether a failed batch insert reaches the try block of start
PersistFailureSurfaces(stored) == FALSE

\* createMessage of the assistant message answers and persistDetections is
\* called (lines 188-203); the call is not awaited: start goes on to the
\* awaits of lines 205-207 while the batch insert is in flight
CreateAssistant ==
    /\ pc = "createAssistant"
    /\ \E ok \in BOOLEAN :
         IF ~ok
         THEN /\ CatchBlock("persistence")
              /\ UNCHANGED <<assistantMessageId, persistCall, conversation>>
         ELSE /\ assistantMessageId' = "m2"
              /\ conversation' = createMessage(conversation,
                                      [id |-> "m2", role |-> "assistant",
                                       content |-> assistantContent])
              /\ persistCall' = IF piiEnabled /\ Len(allDetections) > 0
                                THEN [called |-> TRUE, detections |-> allDetections,
                                      answered |-> FALSE, stored |-> FALSE]
                                ELSE persistCall
              /\ pc' = "updateUserTokens"
              /\ UNCHANGED <<events, stream, error>>
    /\ UNCHANGED <<assistantContent, contentBuffer, sentOriginalLength, tokens,
                   allDetections, detectionPromises, deleteAttempted, piiCost, pendingTracks,
                   chunksDone, thrown, userMessage, providerCalled, messages>>
    /\ UNCHANGED inputVars
    /\ UNCHANGED detectorVars

\* prisma.piiDetection.createMany answers the call of persistDetections, in
\* a callback of its own that runs after any number of other steps, the done
\* event and the close of the stream included: the rows are stored, or the
\* insert is rejected and persist logs it (persistence.ts lines 31-61)
PersistSettles ==
    /\ persistCall.called
    /\ ~persistCall.answered
    /\ \E stored \in BOOLEAN :
         /\ persistCall' = [persistCall EXCEPT !.answered = TRUE, !.stored = stored]
         /\ IF PersistFailureSurfaces(stored)
               /\ pc \in {"updateUserTokens", "trackUsage", "updateConversationTokens"}
            THEN CatchBlock("detection_persistence")
            ELSE UNCHANGED <<events, stream, error, pc>>
    /\ UNCHANGED <<assistantContent, contentBuffer, sentOriginalLength, tokens,
                   allDetections, detectionPromises, assistantMessageId, deleteAttempted,
                   piiCost, pendingTracks, chunksDone, thrown, userMessage, providerCalled>>
    /\ UNCHANGED requestVars
    /\ UNCHANGED detectorVars

\* one of the awaits of lines 205-207, each of which may reject
AfterAssistant(here, next) ==
    /\ pc = here
    /\ \E ok \in BOOLEAN :
         IF ok THEN pc' = next /\ UNCHANGED <<events, stream, error>>
         ELSE CatchBlock("persistence")
    /\ UNCHANGED <<assistantContent, contentBuffer, sentOriginalLength, tokens,
                   allDetections, detectionPromises, assistantMessageId, persistCall,
                   deleteAttempted, piiCost, pendingTracks, chunksDone, thrown, userMessage,
                   providerCalled>>
    /\ UNCHANGED requestVars
    /\ UNCHANGED detectorVars

UpdateUserTokens == AfterAssistant("updateUserTokens", "trackUsage")
TrackUsage == AfterAssistant("trackUsage", "updateConversationTokens")

\* updateConversationTokens, the done event and controller.close (lines 207-220)
Finish ==
    /\ pc = "updateConversationTokens"
    /\ \E ok \in BOOLEAN :
         IF ~ok THEN CatchBlock("persistence")
         ELSE IF EnqueueThrows THEN CatchBlock("closed_stream")
         ELSE /\ events' = Append(events, DoneEvent(tokens.prompt + tokens.completion))
              /\ stream' = "closed"
              /\ pc' = "completed"
              /\ UNCHANGED error
    /\ UNCHANGED <<assistantContent, contentBuffer, sentOriginalLength, tokens,
                   allDetections, detectionPromises, assistantMessageId, persistCall,
                   deleteAttempted, piiCost, pendingTracks, chunksDone, thrown, userMessage,
                   providerCalled>>
    /\ UNCHANGED requestVars
    /\ UNCHANGED detectorVars

\* the rest of the catch block: deleteMessage(...).catch(() => {}) and
\* controller.close(), which throws on a cancelled stream (lines 224-227)
CatchDelete ==
    /\ pc = "catchDelete"
    /\ deleteAttempted' = TRUE
    /\ \E ok \in BOOLEAN :
         IF ok
         THEN /\ userMessage' = "deleted"
              /\ conversation' = deleteMessage(conversation, "m1")
         ELSE UNCHANGED <<userMessage, conversation>>
    /\ IF stream = "open"
       THEN pc' = "failed" /\ stream' = "closed"
       ELSE pc' = "escaped" /\ UNCHANGED stream
    /\ UNCHANGED <<events, assistantContent, contentBuffer, sentOriginalLength, tokens,
                   allDetections, detectionPromises, assistantMessageId, persistCall,
                   error, piiCost, pendingTracks, chunksDone, thrown, providerCalled, messages>>
    /\ UNCHANGED inputVars
    /\ UNCHANGED detectorVars

\* the consumer of the response cancels the stream (the client disconnects);
\* the underlying source has no cancel handler (lines 89-90)
ClientCancel ==
    /\ stream = "open"
    /\ stream' = "cancelled"
    /\ UNCHANGED <<pc, thrown, userMessage, providerCalled>>
    /\ UNCHANGED streamVars
    /\ UNCHANGED requestVars
    /\ UNCHANGED detectorVars

RECURSIVE MaskEvents(_)
MaskEvents(ds) == IF ds = <<>> THEN <<>> ELSE <<MaskEvent(Head(ds))>> \o MaskEvents(Tail(ds))

\* lines 111-115: batch-relative offsets to offsets of the whole message
Adjust(ds, baseOffset) ==
    [k \in 1..Len(ds) |-> [ds[k] EXCEPT !.startOffset = baseOffset + @,
                                        !.endOffset = baseOffset + @]]

\* PiiDetectionCostTracker.track once its upsert has answered: the row with
\* the call counted (a row that does not exist yet counts as 0, 0)
Upserted(row, success) ==
    [requestCount |-> row.requestCount + 1,
     errorCount   |-> row.errorCount + (IF success THEN 0 ELSE 1)]

\* costTracker.track(...).catch(...) is started without await by detectPii:
\* the track calls in flight after one more call of the provider
Tracked(pending, success) == [pending EXCEPT ![success] = @ + 1]

\* the upsert of one track call answers: the row is written, or the upsert
\* rejects, track logs it and the row stays as it was
TrackSettles ==
    /\ \E success \in BOOLEAN, upsertOk \in BOOLEAN :
         /\ pendingTracks[success] > 0
         /\ pendingTracks' = [pendingTracks EXCEPT ![success] = @ - 1]
         /\ piiCost' = IF upsertOk THEN Upserted(piiCost, success) ELSE piiCost
    /\ UNCHANGED <<events, assistantContent, contentBuffer, sentOriginalLength, tokens,
                   allDetections, detectionPromises, assistantMessageId, persistCall,
                   error, deleteAttempted, chunksDone>>
    /\ UNCHANGED <<pc, thrown, userMessage, providerCalled, stream>>
    /\ UNCHANGED requestVars
    /\ UNCHANGED detectorVars

\* the callback of one detection task, from the resolution of detectPii to
\* the settlement of the task's promise (lines 109-143); the track call
\* detectPii started is still in flight
CompleteDetection ==
    \E i \in 1..Len(detectionPromises), reply \in StreamReplies :
      /\ detectionPromises[i].status = "pending"
      /\ LET task     == detectionPromises[i]
             result   == detectPii(task.text, reply)
             reports  == result.success /\ Len(result.detections) > 0
             adjusted == Adjust(result.detections, task.baseOffset)
             threw    == reports /\ EnqueueThrows
         IN  /\ allDetections' = IF reports THEN allDetections \o adjusted
                                 ELSE allDetections
             /\ events' = IF reports /\ ~EnqueueThrows
                          THEN events \o MaskEvents(adjusted) ELSE events
             /\ detectionPromises' =
                    [detectionPromises EXCEPT ![i].status = TaskSettles(threw)]
             /\ pendingTracks' = IF CallsProvider(task.text)
                                 THEN Tracked(pendingTracks, result.success)
                                 ELSE pendingTracks
      /\ UNCHANGED <<assistantContent, contentBuffer, sentOriginalLength, tokens,
                     assistantMessageId, persistCall, error, deleteAttempted, piiCost,
                     chunksDone, pc, thrown, userMessage, providerCalled, stream>>
      /\ UNCHANGED requestVars
    /\ UNCHANGED detectorVars

\* one streamed turn, on a conversation no other turn writes to meanwhile;
\* ValidateSpec, FairSpec and SendSpec follow execute with the turns that run
\* beside it
Next ==
    \/ Execute
    \/ FindConversation
    \/ EnforceQuota
    \/ CreateMessage
    \/ FindContextMessages
    \/ ContentChunk
    \/ UsageChunk
    \/ ProviderThrows
    \/ ProviderEnds
    \/ Join
    \/ CreateAssistant
    \/ UpdateUserTokens
    \/ TrackUsage
    \/ Finish
    \/ CatchDelete
    \/ ClientCancel
    \/ CompleteDetection
    \/ TrackSettles
    \/ PersistSettles

Spec == Init /\ [][Next]_vars

TypeOK ==
    /\ pc \in {"idle", "findConversation", "enforceQuota", "createMessage",
               "findContextMessages", "rejected", "streaming", "join", "createAssistant",
               "updateUserTokens", "trackUsage", "updateConversationTokens",
               "catchDelete", "completed", "failed", "escaped"}
    /\ stream \in {"none", "open", "cancelled", "closed"}
    /\ sentOriginalLength \in Nat
    /\ \A success \in BOOLEAN : pendingTracks[success] \in Nat
    /\ (userMessage = "persisted") =
           (\E k \in 1..Len(conversation.messages) : conversation.messages[k].id = "m1")

(***************************************************************************)
(* The detectors called directly: one call of PiiDetectionService.detectPii*)
(* on a text, with the provider's reply as input.                          *)
(***************************************************************************)
DetectAlphabet == {"a", "@", ".", " "}

RECURSIVE TextsUpTo(_)
\* all texts over DetectAlphabet of at most n characters
TextsUpTo(n) ==
    IF n = 0 THEN {<<>>}
    ELSE LET shorter == TextsUpTo(n - 1)
         IN  shorter \cup { Append(t, c) : t \in { u \in shorter : Len(u) = n - 1 },
                                           c \in DetectAlphabet }

\* and texts with other white space than the space
DetectTexts ==
    TextsUpTo(MaxTextLen)
    \cup { <<"\f">>, <<"\\u000b", "\\u00a0">>, <<"a", "\f">>, <<"\\ufeff", "a", " ">> }

Item(type, value) == [piiType |-> type, value |-> value, hasConfidence |-> TRUE,
                      confidence |-> 90]
\* the provider replies the detector model draws from
DetectReplies ==
    { [kind |-> "timeout",        items |-> <<>>],
      [kind |-> "provider_error", items |-> <<>>],
      [kind |-> "empty",          items |-> <<>>],
      [kind |-> "malformed",      items |-> <<>>],
      [kind |-> "nonarray",       items |-> <<>>],
      [kind |-> "array",          items |-> <<>>],
      [kind |-> "array",          items |-> <<Item(<<"n", "a", "m", "e">>, <<"a">>)>>],
      [kind |-> "array",          items |-> <<Item(<<"e", "m", "a", "i", "l">>,
                                                   <<"a", "@", "a", ".", "a", "a">>)>>],
      [kind |-> "array",          items |-> <<Item(<<"n", "a", "m", "e">>, <<"a", "a">>),
                                              Item(<<"N", "a", "m", "e">>, <<" ", "a">>)>>],
      [kind |-> "array",          items |-> <<Item(<<"S", "S", "N">>, <<"a", "\f">>),
                                              Item(<<"n", "a", "m", "e">>, <<"\\u00a0">>)>>],
      [kind |-> "array",          items |-> <<Item(<<"E", "M", "A", "I", "L">>, <<"a", "@">>),
                                              Item(<<"s", "e", "c", "r", "e", "t">>, <<"a">>),
                                              Item(<<"N", "\\u00c1", "M", "E">>, <<"a">>),
                                              [piiType |-> <<"n", "a", "m", "e">>, value |-> <<"a">>,
                                               hasConfidence |-> FALSE, confidence |-> 0]>>] }

DetectInit ==
    /\ params = [content |-> <<>>, userId |-> "u1"]
    /\ conversation = [exists |-> TRUE, userId |-> "u1", messages |-> <<>>]
    /\ limits = [rateOk |-> TRUE, quotaOk |-> TRUE]
    /\ piiEnabled = TRUE
    /\ TurnInit
    /\ detectText \in DetectTexts
    /\ detectReply = NoReply
    /\ detectResult = NoResult
    /\ detectPhase = "none"
    /\ LibIdle

\* detectPii is called: the provider is asked unless the text is blank
DetectCall ==
    /\ detectPhase = "none"
    /\ detectPhase' = "called"
    /\ detectReply' \in IF CallsProvider(detectText) THEN DetectReplies ELSE {NoReply}
    /\ UNCHANGED <<detectText, detectResult>>
    /\ UNCHANGED libVars
    /\ UNCHANGED <<pc, thrown, userMessage, providerCalled, stream>>
    /\ UNCHANGED streamVars
    /\ UNCHANGED requestVars

\* detectPii returns, having started the track call of the cost tracker
\* without awaiting it
DetectReturn ==
    /\ detectPhase = "called"
    /\ detectPhase' = "returned"
    /\ detectResult' = detectPii(detectText, detectReply)
    /\ pendingTracks' = IF CallsProvider(detectText)
                        THEN Tracked(pendingTracks, detectResult'.success)
                        ELSE pendingTracks
    /\ UNCHANGED piiCost
    /\ UNCHANGED <<detectText, detectReply>>
    /\ UNCHANGED libVars
    /\ UNCHANGED <<pc, thrown, userMessage, providerCalled, stream>>
    /\ UNCHANGED <<events, assistantContent, contentBuffer, sentOriginalLength, tokens,
                   allDetections, detectionPromises, assistantMessageId, persistCall,
                   error, deleteAttempted, chunksDone>>
    /\ UNCHANGED requestVars

DetectNext ==
    \/ DetectCall
    \/ DetectReturn
    \/ TrackSettles

DetectSpec == DetectInit /\ [][DetectNext]_vars

\* the reply kinds that are failures of the detection call
FailedReplyKinds == {"timeout", "provider_error", "empty", "malformed", "nonarray"}

\* C9: detectPii returns (it never throws), and for every failure of the
\* detection call the result is {detections: [], success: false, error}
C9_FailureDegrades ==
    (detectPhase = "returned" /\ detectReply.kind \in FailedReplyKinds) =>
        /\ detectResult.detections = <<>>
        /\ detectResult.success = FALSE
        /\ detectResult.error # "none"

\* C10: when the AI call fails, the result still holds what the regex
\* detector finds in the text with email and phone enabled (for a text
\* with one address: one email detection at the address, confidence 1.0)
C10_RegexSurvivesAiFailure ==
    (detectPhase = "returned" /\ detectReply.kind \in {"timeout", "provider_error"}) =>
        detectResult.detections = detectPiiRegex(detectText, {"email", "phone"})

(***************************************************************************)
(* Properties of the Stream Orchestrator.                                  *)
(***************************************************************************)
IsMask(e) == e.type = "pii_mask"
IsContent(e) == e.type = "content"

RECURSIVE ContentOf(_)
\* what the client has accumulated from the content events
ContentOf(evs) ==
    IF evs = <<>> THEN <<>>
    ELSE (IF IsContent(Head(evs)) THEN Head(evs).content ELSE <<>>) \o ContentOf(Tail(evs))

\* C1: every pii_mask event carries offsets of the whole message: the slice
\* [startOffset, endOffset) of assistantContent is the text the detector
\* reported (in this model the detector only ever reports ItemP.value)
C1_MaskOffsetsAbsolute ==
    \A k \in 1..Len(events) :
        IsMask(events[k]) =>
            Slice(assistantContent, events[k].startOffset, events[k].endOffset)
                = ItemP.value

\* a is the beginning of b
IsPrefix(a, b) == Len(a) <= Len(b) /\ SubSeq(b, 1, Len(a)) = a

\* C2 as stated: after each delta the content events concatenate to
\* assistantContent, sentOriginalLength is its length, and
\* sentOriginalLength never decreases
C2_ContentForwarded ==
    /\ [](/\ ContentOf(events) = assistantContent
          /\ sentOriginalLength = Len(assistantContent))
    /\ [][sentOriginalLength' >= sentOriginalLength]_vars

\* C2, amended: the content events concatenate to a beginning of
\* assistantContent of length sentOriginalLength, which never decreases; they
\* concatenate to the whole of it unless the client has cancelled and the
\* content event of a delta could not be enqueued, with which the loop ends
C2_ForwardedUntilCancel ==
    /\ [](/\ IsPrefix(ContentOf(events), assistantContent)
          /\ sentOriginalLength = Len(ContentOf(events))
          /\ ContentOf(events) # assistantContent =>
                 /\ error = "closed_stream"
                 /\ stream = "cancelled"
                 /\ pc # "streaming")
    /\ [][sentOriginalLength' >= sentOriginalLength]_vars

\* one delta was forwarded, the client cancelled and the next delta reached
\* assistantContent only
C2_Witness ==
    /\ error = "closed_stream"
    /\ Len(SelectSeq(events, IsContent)) = 1
    /\ sentOriginalLength > 0
    /\ Len(assistantContent) > sentOriginalLength

Finalizing == pc \in {"createAssistant", "updateUserTokens", "trackUsage",
                      "updateConversationTokens", "completed"}

\* C3: at finalization with PII detection enabled, non-blank text left in
\* contentBuffer has been handed to a detection task
C3_RemainingFlushed ==
    (Finalizing /\ piiEnabled /\ ~IsBlank(contentBuffer)) =>
        \E i \in 1..Len(detectionPromises) :
            /\ detectionPromises[i].text = contentBuffer
            /\ detectionPromises[i].baseOffset
                   = Len(assistantContent) - Len(contentBuffer)

\* C4: the assistant message is persisted and persistDetections is called
\* only after every detection task has settled, and on the success path the
\* list handed to persistDetections is exactly the list of detections that
\* were emitted as pii_mask events
C4_PersistAfterJoin ==
    /\ assistantMessageId # "none" =>
           \A i \in 1..Len(detectionPromises) : detectionPromises[i].status # "pending"
    /\ persistCall.called =>
           /\ assistantMessageId # "none"
           /\ persistCall.detections = allDetections
    /\ pc = "completed" =>
           /\ SelectSeq(events, IsMask) = MaskEvents(allDetections)
           /\ (piiEnabled /\ Len(allDetections) > 0) => persistCall.called

C4_Witness ==
    /\ pc = "completed"
    /\ Len(detectionPromises) >= 2
    /\ persistCall.called
    /\ Len(persistCall.detections) >= 2

\* C5: the error event is the last event of the stream
C5_ErrorIsTerminal ==
    \A k \in 1..Len(events) : events[k].type = "error" => k = Len(events)

\* C6: a streamed turn that ended without an assistant message has had the
\* deletion of its user message attempted
C6_UserMessageCleanup ==
    (pc \in {"failed", "escaped"} /\ assistantMessageId = "none") => deleteAttempted

\* C7: no failure of a detection task reaches the catch block of the stream:
\* no task promise rejects, and what the stream caught is never a detection
C7_DetectionFailureIsolated ==
    /\ error # "detection"
    /\ \A i \in 1..Len(detectionPromises) : detectionPromises[i].status # "rejected"
    /\ (pc \in {"completed", "failed", "escaped"} /\ error = "none") =>
           /\ pc = "completed"
           /\ events[Len(events)].type = "done"

C7_Witness ==
    /\ pc = "completed"
    /\ piiCost.errorCount > 0
    /\ events[Len(events)].type = "done"

EmptyContent == Len(sanitizeInput(params.content)) = 0
CapReached == Len(conversation.messages) >= MaxMessagesPerConversation

\* the check execute makes at its current position fails on the current state
ViolatedHere ==
    \/ pc = "idle" /\ EmptyContent
    \/ /\ pc = "findConversation"
       /\ \/ ~conversation.exists
          \/ conversation.userId # params.userId
          \/ CapReached
          \/ ~limits.rateOk
    \/ pc = "enforceQuota" /\ ~limits.quotaOk

\* the rule a typed error stands for is violated on the current state
Corresponds(err) ==
    /\ err = "ValidationError" => EmptyContent \/ CapReached
    /\ err = "ConversationNotFoundError" => ~conversation.exists
    /\ err = "ForbiddenError" => conversation.userId # params.userId
    /\ err = "RateLimitExceededError" => ~limits.rateOk
    /\ err = "QuotaExceededError" => ~limits.quotaOk

\* execute is at one of its checks
Validating == pc \in {"idle", "findConversation", "enforceQuota"}

NoStream ==
    /\ params = [content |-> <<>>, userId |-> "u1"]
    /\ conversation = [exists |-> TRUE, userId |-> "u1", messages |-> <<>>]
    /\ limits = [rateOk |-> TRUE, quotaOk |-> TRUE]
    /\ piiEnabled = TRUE
    /\ TurnInit
    /\ detectText = <<>>
    /\ detectReply = NoReply
    /\ detectResult = NoResult
    /\ detectPhase = "none"

\* a library function is called directly: no turn, no detector call and no
\* rate limiter call is in progress
NoTurn ==
    /\ NoStream
    /\ LimiterIdle

\* a library call returns: nothing else of the program moves
Returns(output) ==
    /\ libPhase = "none"
    /\ libPhase' = "returned"
    /\ libOutput' = output
    /\ UNCHANGED <<libInput, detectText, detectReply, detectResult, detectPhase>>
    /\ UNCHANGED <<rateLimiter, now, rateLog>>
    /\ UNCHANGED <<pc, thrown, userMessage, providerCalled, stream>>
    /\ UNCHANGED streamVars
    /\ UNCHANGED requestVars

\* lists of at most two elements of a set
ListsOf(S) == {<<>>} \cup { <<a>> : a \in S } \cup { <<a, b>> : a \in S, b \in S }

(***************************************************************************)
(* mergeDetections called directly.                                        *)
(***************************************************************************)
MergeSpans == { sp \in (0..MaxOffset) \X (0..MaxOffset) : sp[1] < sp[2] }
RegexDetections ==
    { [piiType |-> "email", startOffset |-> sp[1], endOffset |-> sp[2], confidence |-> 100] :
        sp \in MergeSpans }
AiDetections ==
    { [piiType |-> t, startOffset |-> sp[1], endOffset |-> sp[2], confidence |-> 100] :
        t \in {"email", "name"}, sp \in MergeSpans }

MergeInit ==
    /\ NoTurn
    /\ libInput \in [fn : {"mergeDetections"}, regexResults : ListsOf(RegexDetections),
                      aiResults : ListsOf(AiDetections)]
    /\ libOutput = NoCall
    /\ libPhase = "none"

MergeCall ==
    /\ libInput.fn = "mergeDetections"
    /\ Returns(mergeDetections(libInput.regexResults, libInput.aiResults))

MergeSpec == MergeInit /\ [][MergeCall]_vars

\* no two distinct elements of the list overlap
NonOverlapping(ds) ==
    \A i \in 1..Len(ds) : \A j \in 1..Len(ds) :
        i # j => ~(ds[i].startOffset < ds[j].endOffset /\ ds[i].endOffset > ds[j].startOffset)

\* C11: when each of the two lists handed to mergeDetections is internally
\* non-overlapping, no two distinct spans of the returned list overlap
C11_MergedNonOverlapping ==
    (/\ libPhase = "returned"
     /\ libInput.fn = "mergeDetections"
     /\ NonOverlapping(libInput.regexResults)
     /\ NonOverlapping(libInput.aiResults)) =>
        NonOverlapping(libOutput)

\* an AI result overlapping a regex result was handed in and two results came out
C11_Witness ==
    /\ libPhase = "returned"
    /\ libInput.fn = "mergeDetections"
    /\ NonOverlapping(libInput.regexResults)
    /\ NonOverlapping(libInput.aiResults)
    /\ Len(libInput.aiResults) = 2
    /\ \E i \in 1..Len(libInput.aiResults) : \E j \in 1..Len(libInput.regexResults) :
           libInput.aiResults[i].startOffset < libInput.regexResults[j].endOffset
           /\ libInput.aiResults[i].endOffset > libInput.regexResults[j].startOffset
    /\ Len(libOutput) = 2

\* number of occurrences of x in the list
Count(x, ds) == Cardinality({ i \in 1..Len(ds) : ds[i] = x })
Elements(ds) == { ds[i] : i \in 1..Len(ds) }

\* C12: for all inputs, every regex result is in the output unchanged (as
\* often as in the input), and whatever else is in the output is an AI result
\* that overlaps no regex result
C12_RegexWins ==
    (libPhase = "returned" /\ libInput.fn = "mergeDetections") =>
        /\ Len(libOutput) >= Len(libInput.regexResults)
        /\ \A x \in Elements(libOutput) \cup Elements(libInput.regexResults) :
              /\ Count(x, libOutput) >= Count(x, libInput.regexResults)
              /\ Count(x, libOutput) > Count(x, libInput.regexResults) =>
                    /\ x \in Elements(libInput.aiResults)
                    /\ \A k \in 1..Len(libInput.regexResults) :
                          ~(x.startOffset < libInput.regexResults[k].endOffset
                            /\ x.endOffset > libInput.regexResults[k].startOffset)
                    /\ Count(x, libOutput) - Count(x, libInput.regexResults)
                         <= Count(x, libInput.aiResults)

\* overlapping regex results and an AI result overlapping one of them were
\* handed in: the output is the regex results
C12_Witness ==
    /\ libPhase = "returned"
    /\ libInput.fn = "mergeDetections"
    /\ Len(libInput.regexResults) = 2
    /\ ~NonOverlapping(libInput.regexResults)
    /\ Len(libInput.aiResults) = 1
    /\ Len(libOutput) = 2


(***************************************************************************)
(* extractBatchesFromBuffer called directly.                               *)
(***************************************************************************)
RECURSIVE TextsOver(_, _)
\* all texts over the alphabet of at most n characters
TextsOver(alphabet, n) ==
    IF n = 0 THEN {<<>>}
    ELSE LET shorter == TextsOver(alphabet, n - 1)
         IN  shorter \cup { Append(t, c) : t \in { u \in shorter : Len(u) = n - 1 },
                                           c \in alphabet }

Buffers == TextsOver({"a", "\r", "\n"}, MaxBufferLen)

Line1 == <<"l", "i", "n", "e", "1", "\n">>
PiiLine == <<"P", "I", "I", "_", "L", "I", "N", "E", "\n">>
Line3 == <<"l", "i", "n", "e", "3", "\n">>
\* "line1\nPII_LINE\nline3\n"
ThreeLines == Line1 \o PiiLine \o Line3

ExtractInit ==
    /\ NoTurn
    /\ libInput \in [fn : {"extractBatchesFromBuffer"}, buffer : Buffers,
                      maxBatchChars : 0..MaxBatchChars]
                     \cup { [fn |-> "extractBatchesFromBuffer", buffer |-> ThreeLines,
                             maxBatchChars |-> Len(PiiLine)] }
    /\ libOutput = NoCall
    /\ libPhase = "none"

ExtractCall ==
    /\ libInput.fn = "extractBatchesFromBuffer"
    /\ Returns(extractBatchesFromBuffer(libInput.buffer, libInput.maxBatchChars))

ExtractSpec == ExtractInit /\ [][ExtractCall]_vars

Extracted == libPhase = "returned" /\ libInput.fn = "extractBatchesFromBuffer"

\* C13: for every buffer and every maxBatchChars >= 1 the batches, joined in
\* order, followed by the remaining text are the buffer: no character is
\* lost, duplicated or reordered (CRLF, empty lines and long lines included)
C13_NoCharacterLost ==
    (Extracted /\ libInput.maxBatchChars >= 1) =>
        Concat(libOutput.batches) \o libOutput.remaining = libInput.buffer

\* C14 as stated: for "line1\nPII_LINE\nline3\n" the batches are the first
\* two lines and the remaining text is "line3\n"; a buffer made only of
\* newline-terminated lines keeps its last line as remaining
C14_LastLineRemains ==
    /\ (Extracted /\ libInput.buffer = ThreeLines) =>
          /\ libOutput.batches = <<Line1, PiiLine>>
          /\ libOutput.remaining = Line3
    /\ (/\ Extracted
        /\ libInput.maxBatchChars >= 1
        /\ libInput.buffer # <<>>
        /\ libInput.buffer[Len(libInput.buffer)] = "\n") =>
          /\ libOutput.remaining # <<>>
          /\ libOutput.remaining[Len(libOutput.remaining)] = "\n"

\* C14 amended: for "line1\nPII_LINE\nline3\n" the batches are the three
\* lines and the remaining text is empty; for every buffer that ends with a
\* newline the remaining text is empty and the last line ends the last batch
C14_LastLineIsBatch ==
    /\ (Extracted /\ libInput.buffer = ThreeLines) =>
          /\ libOutput.batches = <<Line1, PiiLine, Line3>>
          /\ libOutput.remaining = <<>>
    /\ (/\ Extracted
        /\ libInput.maxBatchChars >= 1
        /\ libInput.buffer # <<>>
        /\ libInput.buffer[Len(libInput.buffer)] = "\n") =>
          /\ libOutput.remaining = <<>>
          /\ libOutput.batches # <<>>
          /\ LET last == libOutput.batches[Len(libOutput.batches)]
             IN  last[Len(last)] = "\n"

C14_Witness ==
    /\ Extracted
    /\ libInput.buffer = ThreeLines
    /\ Len(libOutput.batches) = 3


(***************************************************************************)
(* The maskers called directly.                                            *)
(***************************************************************************)
MaskTexts == TextsOver({"a", "b"}, MaxOffset)

MaskInit ==
    /\ NoTurn
    /\ libInput \in [fn : {"mask", "maskPiiInText"}, text : MaskTexts,
                      detections : ListsOf(RegexDetections)]
    /\ libOutput = NoCall
    /\ libPhase = "none"

MaskCall ==
    /\ libInput.fn \in {"mask", "maskPiiInText"}
    /\ Returns(IF libInput.fn = "mask"
               THEN mask(libInput.text, libInput.detections)
               ELSE maskPiiInText(libInput.text, libInput.detections))

MaskSpec == MaskInit /\ [][MaskCall]_vars

\* C16: for every text and every detection list (any order, overlapping or
\* not, offsets inside the text or past its end) the masked text has the
\* length of the text
C16_MaskKeepsLength ==
    (libPhase = "returned" /\ libInput.fn \in {"mask", "maskPiiInText"}) =>
        /\ ~libOutput.threw
        /\ Len(libOutput.text) = Len(libInput.text)

\* the same for the detections that lie inside the text
MaskKeepsLengthInside ==
    (/\ libPhase = "returned"
     /\ libInput.fn \in {"mask", "maskPiiInText"}
     /\ \A k \in 1..Len(libInput.detections) :
           libInput.detections[k].endOffset <= Len(libInput.text)) =>
        /\ ~libOutput.threw
        /\ Len(libOutput.text) = Len(libInput.text)


(***************************************************************************)
(* The Tag Codec called directly: insertPiiTags, then parsePiiTags on what *)
(* it returned.                                                            *)
(***************************************************************************)
CodecContents == TextsOver({"a", "&", "<", ">"}, MaxContentLen)
CodecSpans == { sp \in (0..MaxContentLen) \X (0..MaxContentLen) : sp[1] < sp[2] }
CodecDetections ==
    { [piiType |-> v.piiType, startOffset |-> sp[1], endOffset |-> sp[2],
       hasConfidence |-> v.hasConfidence, confidence |-> v.confidence] :
        v \in { [piiType |-> "email", hasConfidence |-> TRUE, confidence |-> 100],
                [piiType |-> "name", hasConfidence |-> FALSE, confidence |-> 0] },
        sp \in CodecSpans }

\* the detections are valid for the content and pairwise non-overlapping
ValidFor(content, ds) ==
    /\ \A k \in 1..Len(ds) : ds[k].endOffset <= Len(content)
    /\ \A i \in 1..Len(ds) : \A j \in 1..Len(ds) :
          i # j => ~overlaps(ds[i], ds[j])

\* one detection, valid for the content or not, or several valid ones
CodecInit ==
    /\ NoTurn
    /\ libInput \in { c \in [fn : {"insertPiiTags"}, content : CodecContents,
                             detections : ListsOf(CodecDetections)] :
                          Len(c.detections) < 2 \/ ValidFor(c.content, c.detections) }
    /\ libOutput = NoCall
    /\ libPhase = "none"

CodecCall ==
    /\ libInput.fn = "insertPiiTags"
    /\ LET tagged == insertPiiTags(libInput.content, libInput.detections)
       IN  Returns([tagged |-> tagged, parsed |-> parsePiiTags(tagged)])

CodecSpec == CodecInit /\ [][CodecCall]_vars

\* the detections in ascending order of startOffset
Ascending(ds) == SortByStart(ds)

\* C15: for every tag-free text T and every list D of pairwise
\* non-overlapping valid detections, parsePiiTags(insertPiiTags(T, D)).text is
\* T and the mask regions have, in ascending order, the startOffset, endOffset
\* and piiType of D (spans with & < >, and adjacent spans, included)
C15_TagRoundTrip ==
    (/\ libPhase = "returned"
     /\ libInput.fn = "insertPiiTags"
     /\ ValidFor(libInput.content, libInput.detections)) =>
        LET D == Ascending(libInput.detections)
            R == libOutput.parsed.maskRegions
        IN  /\ libOutput.parsed.text = libInput.content
            /\ Len(R) = Len(D)
            /\ \A k \in 1..Len(D) :
                  /\ R[k].startOffset = D[k].startOffset
                  /\ R[k].endOffset = D[k].endOffset
                  /\ R[k].piiType = TypeChars(D[k].piiType)

\* two adjacent spans, one of them holding "<" or "&", went through the codec
C15_Witness ==
    /\ libPhase = "returned"
    /\ libInput.fn = "insertPiiTags"
    /\ ValidFor(libInput.content, libInput.detections)
    /\ Len(libInput.detections) = 2
    /\ libInput.detections[1].endOffset = libInput.detections[2].startOffset
    /\ libInput.content[libInput.detections[1].startOffset + 1] \in {"<", "&"}
    /\ Len(libOutput.parsed.maskRegions) = 2


(***************************************************************************)
(* Offset resolution of the AI Detector (DetectSpec).                      *)
(***************************************************************************)
\* the items of the reply that pass the validation, with their trimmed values
AcceptedItems == RawItems(detectReply.items)

\* the starts of the occurrences of value in text that overlap no span of used
FreeStarts(text, value, used) ==
    { i \in 0..(Len(text) - Len(value)) :
        /\ SubSeq(text, i + 1, i + Len(value)) = value
        /\ \A r \in used : ~(i < r[2] /\ i + Len(value) > r[1]) }

RECURSIVE Assigned(_, _, _)
\* the spans of the items in reply order: each item gets the leftmost free
\* occurrence of its value, an item without one gets nothing
Assigned(text, items, used) ==
    IF items = <<>> THEN <<>>
    ELSE LET it     == Head(items)
             starts == FreeStarts(text, it.value, used)
         IN  IF starts = {} THEN Assigned(text, Tail(items), used)
             ELSE LET st == CHOOSE i \in starts : \A j \in starts : i <= j
                  IN  <<[piiType |-> it.piiType, startOffset |-> st,
                         endOffset |-> st + Len(it.value), confidence |-> it.confidence]>>
                      \o Assigned(text, Tail(items),
                                  used \cup {<<st, st + Len(it.value)>>})

\* C17: each accepted item of the reply is assigned the leftmost occurrence of
\* its value that overlaps no span assigned to an earlier item, an item with
\* no such occurrence is dropped and the call still succeeds; the returned
\* spans are pairwise non-overlapping, sorted by startOffset, inside the text,
\* and cover the value of their item
C17_LeftmostFreeOccurrence ==
    (detectPhase = "returned" /\ detectReply.kind = "array") =>
        LET A == Assigned(detectText, AcceptedItems, {})
            R == detectResult.detections
        IN  /\ detectResult.success
            /\ Len(R) = Len(A)
            /\ \A x \in Elements(R) \cup Elements(A) : Count(x, R) = Count(x, A)
            /\ \A i \in 1..Len(R) : \A j \in 1..Len(R) :
                  i < j => R[i].startOffset <= R[j].startOffset
            /\ NonOverlapping(R)
            /\ \A k \in 1..Len(R) :
                  /\ 0 <= R[k].startOffset
                  /\ R[k].startOffset < R[k].endOffset
                  /\ R[k].endOffset <= Len(detectText)
                  /\ \E n \in 1..Len(AcceptedItems) :
                        /\ AcceptedItems[n].piiType = R[k].piiType
                        /\ AcceptedItems[n].value
                             = SubSeq(detectText, R[k].startOffset + 1, R[k].endOffset)

\* two items were resolved, one of them past the first occurrence of its
\* value, which an earlier item had taken
C17_Witness ==
    /\ detectPhase = "returned"
    /\ detectReply.kind = "array"
    /\ Len(detectResult.detections) = 2
    /\ \E k \in 1..2 :
          LET r == detectResult.detections[k]
          IN  IndexOf(detectText, SubSeq(detectText, r.startOffset + 1, r.endOffset), 0)
                < r.startOffset

\* a value that occurs twice in the text and is reported once resolves to its
\* first occurrence
FirstOfTwoResolved ==
    /\ detectPhase = "returned"
    /\ detectReply.kind = "array"
    /\ Len(detectReply.items) = 1
    /\ Len(detectResult.detections) = 1
    /\ LET r == detectResult.detections[1]
           v == SubSeq(detectText, r.startOffset + 1, r.endOffset)
       IN  /\ IndexOf(detectText, v, 0) = r.startOffset
           /\ IndexOf(detectText, v, r.endOffset) >= 0


(***************************************************************************)
(* More properties of the Stream Orchestrator.                             *)
(***************************************************************************)
IsError(e) == e.type = "error"

\* C18: a failure of detection persistence never changes the client-visible
\* outcome: the step that starts the persistence goes on to the next await
\* with no event, no error and the stream untouched, the step at which the
\* insert answers, stored or rejected, changes neither the events, the stream,
\* the error nor where start is, and a turn whose insert is not stored and
\* that completes has the done event with its ids and totals as last event,
\* no error event, and keeps its assistant message
C18_PersistFailureInvisible ==
    /\ []((persistCall.called /\ ~persistCall.stored) =>
            /\ error # "detection_persistence"
            /\ assistantMessageId = "m2"
            /\ pc = "completed" =>
                 /\ events # <<>>
                 /\ events[Len(events)] = DoneEvent(tokens.prompt + tokens.completion)
                 /\ \A k \in 1..Len(events) : ~IsError(events[k]))
    /\ [][(pc = "createAssistant" /\ persistCall'.called) =>
            /\ pc' = "updateUserTokens"
            /\ events' = events
            /\ stream' = stream
            /\ error' = error
            /\ assistantMessageId' = "m2"]_vars
    /\ [][(~persistCall.answered /\ persistCall'.answered) =>
            /\ pc' = pc
            /\ events' = events
            /\ stream' = stream
            /\ error' = error
            /\ assistantMessageId' = assistantMessageId]_vars

\* a turn whose batch insert was rejected has completed
C18_Witness ==
    /\ pc = "completed"
    /\ persistCall.called
    /\ persistCall.answered
    /\ ~persistCall.stored
    /\ Len(persistCall.detections) > 0

\* C19: after the client has closed the response, every write attempt is
\* guarded: no exception escapes the start routine, and when the turn fails
\* without an assistant message the deletion of the user message is attempted
C19_ClosedStreamGuarded ==
    /\ pc # "escaped"
    /\ (stream = "cancelled" /\ error # "none" /\ assistantMessageId = "none"
        /\ pc \in {"failed", "escaped"}) => deleteAttempted


(***************************************************************************)
(* The validation of execute alone: requests of every length, up to the    *)
(* return of the stream.                                                   *)
(***************************************************************************)
\* a content of n characters
ContentOfLength(n) == [i \in 1..n |-> "h"]

\* contents below, at and over config.chat.maxMessageLength once sanitized
ValidateContents ==
    Contents \cup { ContentOfLength(MaxMessageLength),
                    ContentOfLength(MaxMessageLength + 1),
                    <<"<", "b", ">">> \o ContentOfLength(MaxMessageLength + 1) \o <<" ">> }

ValidateInit ==
    /\ params \in [content : ValidateContents, userId : {"u1"}]
    /\ conversation \in Conversations
    /\ limits \in [rateOk : BOOLEAN, quotaOk : BOOLEAN]
    /\ piiEnabled \in BOOLEAN
    /\ TurnInit
    /\ detectText = <<>>
    /\ detectReply = NoReply
    /\ detectResult = NoResult
    /\ detectPhase = "none"
    /\ LibIdle

\* the steps of execute up to the return of the stream, and the turns that
\* run beside it
ValidateNext ==
    \/ Execute
    \/ FindConversation
    \/ EnforceQuota
    \/ CreateMessage
    \/ FindContextMessages
    \/ ConcurrentTurnInserts

ValidateSpec == ValidateInit /\ [][ValidateNext]_vars

\* C20: a request whose sanitized content is longer than
\* config.chat.maxMessageLength is rejected with ValidationError, with no
\* user message persisted, no provider call and no stream
C20_MaxLengthEnforced ==
    Len(sanitizeInput(params.content)) > MaxMessageLength =>
        /\ pc \in {"idle", "rejected"}
        /\ pc = "rejected" => thrown = "ValidationError"
        /\ userMessage = "none"
        /\ ~providerCalled
        /\ stream = "none"


(***************************************************************************)
(* validatePiiTags called directly, on contents made of tags and text and  *)
(* on what insertPiiTags returns.                                          *)
(***************************************************************************)
TagPieces == { OpenTag("email", Uuid(0), FALSE, 0), CloseTag, <<"x">> }

RECURSIVE PieceTexts(_)
\* the concatenations of at most n pieces
PieceTexts(n) ==
    IF n = 0 THEN {<<>>}
    ELSE { t \o p : t \in PieceTexts(n - 1), p \in TagPieces \cup {<<>>} }

\* what insertPiiTags returns for tag-free contents and valid detections
InsertedContents ==
    { insertPiiTags(c, ds) :
        c \in TextsOver({"a", "<"}, 2),
        ds \in { l \in ListsOf({ x \in CodecDetections : x.endOffset <= 2 }) :
                   \A i \in 1..Len(l) : \A j \in 1..Len(l) : i # j => ~overlaps(l[i], l[j]) } }

TagsInit ==
    /\ NoTurn
    /\ libInput \in [fn : {"validatePiiTags"}, content : PieceTexts(MaxPieces),
                     inserted : {FALSE}]
                    \cup [fn : {"validatePiiTags"}, content : InsertedContents,
                          inserted : {TRUE}]
    /\ libOutput = NoCall
    /\ libPhase = "none"

TagsCall ==
    /\ libInput.fn = "validatePiiTags"
    /\ Returns(validatePiiTags(libInput.content))

TagsSpec == TagsInit /\ [][TagsCall]_vars

\* the 0-based starts of the opening and of the closing pii tags
OpenStarts(content) ==
    { m[1] : m \in Elements(ExecAll(openTagRegex, content, 0)) }
CloseStarts(content) ==
    { m[1] : m \in Elements(ExecAll(closeTagRegex, content, 0)) }

\* a pii tag starts inside a previous pii tag that is not closed yet
HasNesting(content) ==
    \E o1 \in OpenStarts(content) : \E o2 \in OpenStarts(content) :
        /\ o1 < o2
        /\ ~\E c \in CloseStarts(content) : o1 < c /\ c < o2

\* C21: validatePiiTags returns valid = false when the numbers of opening and
\* closing pii tags differ and when a pii tag starts inside a previous pii
\* tag, also with matching counts; it returns valid = true for what
\* insertPiiTags returns on tag-free text with non-overlapping detections
C21_ValidateRejectsMalformed ==
    (libPhase = "returned" /\ libInput.fn = "validatePiiTags") =>
        /\ Cardinality(OpenStarts(libInput.content))
             # Cardinality(CloseStarts(libInput.content)) => ~libOutput.valid
        /\ HasNesting(libInput.content) => ~libOutput.valid
        /\ libInput.inserted => libOutput.valid

\* the two parts of C21 that do not concern nesting
ValidateCountsAndInserted ==
    (libPhase = "returned" /\ libInput.fn = "validatePiiTags") =>
        /\ Cardinality(OpenStarts(libInput.content))
             # Cardinality(CloseStarts(libInput.content)) => ~libOutput.valid
        /\ libInput.inserted => libOutput.valid

\* C22: the detections handed to persistDetections for one assistant message
\* are pairwise non-overlapping and sorted ascending by startOffset, whatever
\* the order in which the detection tasks completed
C22_PersistedSortedDisjoint ==
    persistCall.called =>
        /\ NonOverlapping(persistCall.detections)
        /\ \A i \in 1..Len(persistCall.detections) :
             \A j \in 1..Len(persistCall.detections) :
                i < j => persistCall.detections[i].startOffset
                           <= persistCall.detections[j].startOffset

\* C23: whenever extractBatchesFromBuffer returns (maxBatchChars >= 1) the
\* remaining text holds no newline and is shorter than maxBatchChars; a
\* buffer with no newline and shorter than maxBatchChars gives no batch and
\* is returned whole as remaining
C23_RemainingBounded ==
    (Extracted /\ libInput.maxBatchChars >= 1) =>
        /\ \A i \in 1..Len(libOutput.remaining) : libOutput.remaining[i] # "\n"
        /\ Len(libOutput.remaining) < libInput.maxBatchChars
        /\ (/\ \A i \in 1..Len(libInput.buffer) : libInput.buffer[i] # "\n"
            /\ Len(libInput.buffer) < libInput.maxBatchChars) =>
              /\ libOutput.batches = <<>>
              /\ libOutput.remaining = libInput.buffer

\* the parts of C23 other than the length of the remaining text
RemainingHasNoNewline ==
    (Extracted /\ libInput.maxBatchChars >= 1) =>
        /\ \A i \in 1..Len(libOutput.remaining) : libOutput.remaining[i] # "\n"
        /\ (/\ \A i \in 1..Len(libInput.buffer) : libInput.buffer[i] # "\n"
            /\ Len(libInput.buffer) < libInput.maxBatchChars) =>
              /\ libOutput.batches = <<>>
              /\ libOutput.remaining = libInput.buffer

(***************************************************************************)
(* detectPiiRegex called directly, on texts in which matches of several    *)
(* types meet.                                                             *)
(***************************************************************************)
\* the texts: an optional start of an IPv4 address, three digits, an optional
\* separator, an optional rest of a phone number or of an SSN, an optional
\* end of an email address; and a card number, alone and before an address
RegexTexts ==
    { s1 \o s2 \o s3 \o s4 \o s5 :
        s1 \in { <<>>, <<"1", ".", "1", ".", "1", ".">> },
        s2 \in { <<"2", "1", "2">>, <<"1", "2", "3">> },
        s3 \in { <<>>, <<")">>, <<" ">>, <<"-">> },
        s4 \in { <<>>, <<"5", "5", "5", "-", "1", "2", "3", "4">>,
                 <<"4", "5", "-", "6", "7", "8", "9">> },
        s5 \in { <<>>, <<"@", "a", ".", "a", "a">> } }
    \cup { <<"4", "1", "1", "1", "1", "1", "1", "1", "1", "1", "1", "1", "1">> \o tail :
             tail \in { <<>>, <<" ", "1", ".", "1", ".", "1", ".", "1">> } }

\* the enabledTypes arguments
EnabledTypeSets ==
    { {"email", "phone", "ssn", "credit_card", "ip", "name", "address"},
      {"phone", "ssn", "ip"}, {"email", "ip"}, {"ip", "name"}, {"name"}, {} }

RegexInit ==
    /\ NoTurn
    /\ libInput \in [fn : {"detectPiiRegex"}, text : RegexTexts,
                     enabledTypes : EnabledTypeSets]
    /\ libOutput = NoCall
    /\ libPhase = "none"

RegexCall ==
    /\ libInput.fn = "detectPiiRegex"
    /\ Returns(detectPiiRegex(libInput.text, libInput.enabledTypes))

RegexSpec == RegexInit /\ [][RegexCall]_vars

\* every match of every enabled regex type in the text: [order, start, end],
\* order being the place of the type in REGEX_PATTERNS
AllMatches(text, enabledTypes) ==
    UNION { { [order |-> k, type |-> REGEX_PATTERNS[k].type, start |-> m[1], end |-> m[2]] :
                m \in Elements(ExecAll(REGEX_PATTERNS[k].regex, text, 0)) } :
            k \in { n \in 1..Len(REGEX_PATTERNS) : REGEX_PATTERNS[n].type \in enabledTypes } }

\* m1 is found before m2: its type is earlier, or it is an earlier match of
\* the same type
FoundBefore(m1, m2) ==
    m1.order < m2.order \/ (m1.order = m2.order /\ m1.start < m2.start)

MatchesOverlap(m1, m2) == m1.start < m2.end /\ m1.end > m2.start

\* the match is in the result
Kept(m, result) ==
    \E k \in 1..Len(result) :
        /\ result[k].piiType = m.type
        /\ result[k].startOffset = m.start
        /\ result[k].endOffset = m.end

Regexed == libPhase = "returned" /\ libInput.fn = "detectPiiRegex"

\* the result is pairwise non-overlapping, sorted by startOffset, with
\* confidence 1 and types that are regex types and enabled
RegexResultShape ==
    /\ NonOverlapping(libOutput)
    /\ \A i \in 1..Len(libOutput) : \A j \in 1..Len(libOutput) :
          i < j => libOutput[i].startOffset <= libOutput[j].startOffset
    /\ \A k \in 1..Len(libOutput) :
          /\ libOutput[k].confidence = 100
          /\ libOutput[k].piiType \in Elements(REGEX_PII_TYPES) \cap libInput.enabledTypes
          /\ \E m \in AllMatches(libInput.text, libInput.enabledTypes) :
                /\ m.type = libOutput[k].piiType
                /\ m.start = libOutput[k].startOffset
                /\ m.end = libOutput[k].endOffset

\* C24 as stated: the shape of the result, and whenever matches of two types
\* overlap the match of the earlier type is kept and the other dropped (and
\* within one type the earlier of two overlapping matches)
C24_EarlierTypeWins ==
    Regexed =>
        /\ RegexResultShape
        /\ \A m1 \in AllMatches(libInput.text, libInput.enabledTypes) :
             \A m2 \in AllMatches(libInput.text, libInput.enabledTypes) :
                (FoundBefore(m1, m2) /\ MatchesOverlap(m1, m2)) =>
                    /\ Kept(m1, libOutput)
                    /\ ~Kept(m2, libOutput)

\* C24 amended: the shape of the result, and a match is dropped exactly when
\* it overlaps a match found before it that was kept; so of two overlapping
\* matches the later found is dropped whenever the earlier found is kept
C24_FirstKeptWins ==
    Regexed =>
        /\ RegexResultShape
        /\ \A m \in AllMatches(libInput.text, libInput.enabledTypes) :
             Kept(m, libOutput) <=>
                ~\E b \in AllMatches(libInput.text, libInput.enabledTypes) :
                    /\ FoundBefore(b, m)
                    /\ MatchesOverlap(b, m)
                    /\ Kept(b, libOutput)

\* a phone match was dropped for an email match, and an ip match that
\* overlaps the phone match only was kept
C24_Witness ==
    /\ Regexed
    /\ \E e \in AllMatches(libInput.text, libInput.enabledTypes) :
       \E p \in AllMatches(libInput.text, libInput.enabledTypes) :
       \E i \in AllMatches(libInput.text, libInput.enabledTypes) :
          /\ e.type = "email" /\ p.type = "phone" /\ i.type = "ip"
          /\ MatchesOverlap(e, p) /\ MatchesOverlap(p, i)
          /\ Kept(e, libOutput) /\ ~Kept(p, libOutput) /\ Kept(i, libOutput)

(***************************************************************************)
(* detectPii of a PiiDetectionService constructed with a given config.     *)
(* The constructor keeps config.piiTypes as enabledPiiTypes; the prompts   *)
(* are built from it and nothing else reads it.                            *)
(***************************************************************************)
\* config.piiTypes of the instance
ConfiguredTypeSets ==
    { PII_TYPES, {"email"}, {"name", "address"}, {} }

ServiceTexts ==
    { <<"a">>, <<"a", "a">>, <<"a", " ", "a">>, <<" ">>, <<"a", "@", " ", "a">>,
      <<"a", "@", "a", ".", "a", "a">>, <<"\f">>, <<"a", "\f">> }

ServiceInit ==
    /\ NoTurn
    /\ libInput \in [fn : {"detectPii"}, enabledPiiTypes : ConfiguredTypeSets,
                     text : ServiceTexts, reply : DetectReplies]
    /\ libOutput = NoCall
    /\ libPhase = "none"

\* detectPii is called: a blank text is answered at once (lines 68-70), for
\* any other text the provider is asked and detectPii awaits the reply
ServiceCall ==
    /\ libInput.fn = "detectPii"
    /\ IF CallsProvider(libInput.text)
       THEN /\ libPhase = "none"
            /\ libPhase' = "called"
            /\ UNCHANGED <<libInput, libOutput>>
            /\ UNCHANGED <<detectText, detectReply, detectResult, detectPhase>>
            /\ UNCHANGED <<rateLimiter, now, rateLog>>
            /\ UNCHANGED <<pc, thrown, userMessage, providerCalled, stream>>
            /\ UNCHANGED streamVars
            /\ UNCHANGED requestVars
       ELSE Returns(detectPii(libInput.text, libInput.reply))

\* the provider has answered: detectPii starts the track call of the cost
\* tracker without awaiting it and returns
ServiceReturn ==
    /\ libInput.fn = "detectPii"
    /\ libPhase = "called"
    /\ libPhase' = "returned"
    /\ libOutput' = detectPii(libInput.text, libInput.reply)
    /\ pendingTracks' = Tracked(pendingTracks, libOutput'.success)
    /\ UNCHANGED <<libInput, piiCost>>
    /\ UNCHANGED <<detectText, detectReply, detectResult, detectPhase>>
    /\ UNCHANGED <<rateLimiter, now, rateLog>>
    /\ UNCHANGED <<pc, thrown, userMessage, providerCalled, stream>>
    /\ UNCHANGED <<events, assistantContent, contentBuffer, sentOriginalLength, tokens,
                   allDetections, detectionPromises, assistantMessageId, persistCall,
                   error, deleteAttempted, chunksDone>>
    /\ UNCHANGED requestVars

ServiceNext ==
    \/ ServiceCall
    \/ ServiceReturn
    \/ TrackSettles

ServiceSpec == ServiceInit /\ [][ServiceNext]_vars

\* C25: every detection returned by detectPii has a piiType that the
\* instance was configured with (config.piiTypes)
C25_OnlyConfiguredTypes ==
    (libPhase = "returned" /\ libInput.fn = "detectPii") =>
        \A k \in 1..Len(libOutput.detections) :
            libOutput.detections[k].piiType \in libInput.enabledPiiTypes

\* every detection returned has a type of the global PII_TYPES list and
\* stems from an item of the reply with a value that is not blank
OnlyKnownTypes ==
    (libPhase = "returned" /\ libInput.fn = "detectPii") =>
        \A k \in 1..Len(libOutput.detections) :
            /\ libOutput.detections[k].piiType \in PII_TYPES
            /\ \E n \in 1..Len(libInput.reply.items) :
                  /\ LowersTo(libInput.reply.items[n].piiType,
                              TypeChars(libOutput.detections[k].piiType))
                  /\ ~IsBlank(libInput.reply.items[n].value)

(***************************************************************************)
(* RateLimiter: the in-memory sliding window.  requests maps a user id to  *)
(* the timestamps of the user's allowed calls; a user without entry reads  *)
(* as the empty list.  Date.now() is nondecreasing and moves in steps of   *)
(* TickMs; several calls may fall on the same millisecond.                 *)
(***************************************************************************)
windowMs == 60000
TickMs == 30000
MaxTicks == 3
MaxCalls == 3
MaxLimit == 2
RateUsers == {"u1", "u2"}

\* this.requests.get(userId) || []
Timestamps(requests, userId) ==
    IF userId \in DOMAIN requests THEN requests[userId] ELSE <<>>

\* timestamps.filter((ts) => ts > windowStart)
ValidTimestamps(timestamps, at) ==
    LET windowStart == at - windowMs
        Inside(ts) == ts > windowStart
    IN SelectSeq(timestamps, Inside)

\* Math.ceil(ms / 1000), ms positive
CeilSeconds(ms) == (ms + 999) \div 1000

\* allowed when fewer calls than the limit are inside the window, and the
\* limit is inside the window too
checkInclusive(limiter, at, userId) ==
    LET validTimestamps == ValidTimestamps(Timestamps(limiter.requests, userId), at)
    IN [allowed |-> Len(validTimestamps) <= limiter.limit,
        hasRetryAfter |-> FALSE, retryAfter |-> 0]

check(limiter, at, userId) ==
    LET validTimestamps == ValidTimestamps(Timestamps(limiter.requests, userId), at)
        allowed == Len(validTimestamps) < limiter.limit
    IN IF ~allowed /\ Len(validTimestamps) > 0
       THEN [allowed |-> FALSE, hasRetryAfter |-> TRUE,
             retryAfter |-> CeilSeconds(validTimestamps[1] + windowMs - at)]
       ELSE [allowed |-> allowed, hasRetryAfter |-> FALSE, retryAfter |-> 0]

\* consume: [result, requests], the map after the call
consume(limiter, at, userId) ==
    LET result == check(limiter, at, userId)
        validTimestamps == ValidTimestamps(Timestamps(limiter.requests, userId), at)
    IN [result   |-> result,
        requests |-> IF result.allowed
                     THEN [u \in DOMAIN limiter.requests \cup {userId} |->
                             IF u = userId THEN Append(validTimestamps, at)
                             ELSE limiter.requests[u]]
                     ELSE limiter.requests]

\* reset: the map without the entry of the user
reset(limiter, userId) ==
    [u \in DOMAIN limiter.requests \ {userId} |-> limiter.requests[u]]

\* cleanup: the map after the sweep
cleanup(limiter, at) ==
    LET remaining == { u \in DOMAIN limiter.requests :
                         Len(ValidTimestamps(limiter.requests[u], at)) # 0 }
    IN [u \in remaining |-> ValidTimestamps(limiter.requests[u], at)]

\* new RateLimiter(config), config.maxRequestsPerMinute in 0..MaxLimit
RateInit ==
    /\ NoStream
    /\ libInput = NoCall
    /\ libOutput = NoCall
    /\ libPhase = "none"
    /\ rateLimiter \in [limit : 0..MaxLimit, requests : {[u \in {} |-> <<>>]}]
    /\ now = 0
    /\ rateLog = <<>>

\* nothing but the rate limiter and the clock moves
RateFrame ==
    /\ UNCHANGED <<libInput, libOutput, libPhase>>
    /\ UNCHANGED <<detectText, detectReply, detectResult, detectPhase>>
    /\ UNCHANGED <<pc, thrown, userMessage, providerCalled, stream>>
    /\ UNCHANGED streamVars
    /\ UNCHANGED requestVars

\* enforce(userId): consume, and throw when the call is not allowed
Enforce(userId) ==
    /\ Len(rateLog) < MaxCalls
    /\ LET consumed == consume(rateLimiter, now, userId)
       IN /\ rateLimiter' = [rateLimiter EXCEPT !.requests = consumed.requests]
          /\ rateLog' = Append(rateLog, [call |-> "enforce", userId |-> userId,
                                         at |-> now,
                                         allowed |-> consumed.result.allowed])
    /\ UNCHANGED now
    /\ RateFrame

\* reset(userId): the calls of the user are forgotten.  The method is public
\* on the exported class, "for testing or admin purposes"; the IRateLimiter
\* port has enforce only and no code of the repository calls it
Reset(userId) ==
    /\ Len(rateLog) < MaxCalls
    /\ rateLimiter' = [rateLimiter EXCEPT !.requests = reset(rateLimiter, userId)]
    /\ rateLog' = Append(rateLog, [call |-> "reset", userId |-> userId, at |-> now,
                                   allowed |-> FALSE])
    /\ UNCHANGED now
    /\ RateFrame

\* the interval timer fires
Cleanup ==
    /\ rateLimiter' = [rateLimiter EXCEPT !.requests = cleanup(rateLimiter, now)]
    /\ UNCHANGED <<now, rateLog>>
    /\ RateFrame

\* time passes
Tick ==
    /\ now < MaxTicks * TickMs
    /\ now' = now + TickMs
    /\ UNCHANGED <<rateLimiter, rateLog>>
    /\ RateFrame

\* the public methods of the limiter called in any order, the interval timer
\* and the clock
RateNext ==
    \/ \E userId \in RateUsers : Enforce(userId)
    \/ \E userId \in RateUsers : Reset(userId)
    \/ Cleanup
    \/ Tick

RateSpec == RateInit /\ [][RateNext]_vars

\* no user was reset: the limiter has seen enforce calls, the cleanup and the
\* clock only
NoReset == \A k \in 1..Len(rateLog) : rateLog[k].call # "reset"

\* the instants looked at: every tick up to the end of the last window
Instants == { k * TickMs : k \in 0..(MaxTicks + 3) }

\* the allowed calls of the user with a timestamp in (t - 60 s, t]
AllowedIn(userId, t) ==
    { k \in 1..Len(rateLog) :
        /\ rateLog[k].call = "enforce"
        /\ rateLog[k].userId = userId
        /\ rateLog[k].allowed
        /\ rateLog[k].at > t - windowMs
        /\ rateLog[k].at <= t }

\* the allowed calls of the user at the instant
AllowedAt(userId, ts) ==
    { k \in 1..Len(rateLog) :
        /\ rateLog[k].call = "enforce"
        /\ rateLog[k].userId = userId
        /\ rateLog[k].allowed
        /\ rateLog[k].at = ts }

\* the calls made after the last reset of the user
SinceReset(userId) ==
    { k \in 1..Len(rateLog) :
        \A j \in k..Len(rateLog) :
            ~(rateLog[j].call = "reset" /\ rateLog[j].userId = userId) }

\* how often the timestamp is recorded for the user
Recorded(userId, ts) ==
    LET timestamps == Timestamps(rateLimiter.requests, userId)
    IN Cardinality({ k \in 1..Len(timestamps) : timestamps[k] = ts })

\* C26: under enforce calls and the periodic cleanup (no user is reset), in
\* every window of 60 s a user has at most limit allowed calls; only allowed
\* calls record a timestamp; whether a user's next call is allowed depends on
\* the user's own allowed calls only, not on other users' calls nor on the
\* cleanup
C26_SlidingWindowPerUser ==
    NoReset =>
    \A userId \in RateUsers :
        /\ \A t \in Instants : Cardinality(AllowedIn(userId, t)) <= rateLimiter.limit
        /\ \A ts \in Instants :
              Recorded(userId, ts) <= Cardinality(AllowedAt(userId, ts))
        /\ check(rateLimiter, now, userId).allowed
              <=> Cardinality(AllowedIn(userId, now)) < rateLimiter.limit

\* u1 was rejected, u2 was allowed afterwards at the same instant, and the
\* cleanup has since removed the entry of u1
C26_Witness ==
    /\ NoReset
    /\ rateLimiter.limit > 0
    /\ "u1" \notin DOMAIN rateLimiter.requests
    /\ \E j \in 1..Len(rateLog) : \E k \in 1..Len(rateLog) :
          /\ j < k
          /\ rateLog[j].userId = "u1" /\ ~rateLog[j].allowed
          /\ rateLog[k].userId = "u2" /\ rateLog[k].allowed
          /\ rateLog[k].at = rateLog[j].at
          /\ now >= rateLog[j].at + windowMs

\* with resets the same holds of the calls made since the user's last reset
SlidingWindowSinceReset ==
    \A userId \in RateUsers :
        /\ \A t \in Instants :
              Cardinality(AllowedIn(userId, t) \cap SinceReset(userId))
                 <= rateLimiter.limit
        /\ \A ts \in Instants :
              Recorded(userId, ts)
                 <= Cardinality(AllowedAt(userId, ts) \cap SinceReset(userId))
        /\ check(rateLimiter, now, userId).allowed
              <=> Cardinality(AllowedIn(userId, now) \cap SinceReset(userId))
                     < rateLimiter.limit

(***************************************************************************)
(* Termination of a stream.  The steps of start are continuations of the   *)
(* event loop and run once they can; the provider stream ends and every    *)
(* detector call returns or times out.  Nothing makes the client stay:     *)
(* ClientCancel is under no fairness condition.                            *)
(***************************************************************************)
\* the provider chunks of a stream followed to its end
MaxFairChunks == 1

\* the steps of start, of the provider (at most MaxFairChunks chunks) and of
\* the detection tasks
Progress ==
    \/ Execute
    \/ FindConversation
    \/ EnforceQuota
    \/ CreateMessage
    \/ FindContextMessages
    \/ (chunksDone < MaxFairChunks /\ ContentChunk)
    \/ (chunksDone < MaxFairChunks /\ UsageChunk)
    \/ ProviderThrows
    \/ ProviderEnds
    \/ Join
    \/ CreateAssistant
    \/ UpdateUserTokens
    \/ TrackUsage
    \/ Finish
    \/ CatchDelete
    \/ CompleteDetection
    \/ TrackSettles
    \/ PersistSettles

\* a request that passes every check of execute, so that its stream is opened
OpenedInit ==
    /\ params = [content |-> <<"<", "b", ">", "h", " ">>, userId |-> "u1"]
    /\ conversation = [exists |-> TRUE, userId |-> "u1", messages |-> <<>>]
    /\ limits = [rateOk |-> TRUE, quotaOk |-> TRUE]
    /\ piiEnabled \in BOOLEAN
    /\ TurnInit
    /\ detectText = <<>>
    /\ detectReply = NoReply
    /\ detectResult = NoResult
    /\ detectPhase = "none"
    /\ LibIdle

FairNext ==
    \/ Progress
    \/ ClientCancel
    \/ ConcurrentTurnInserts

FairSpec == OpenedInit /\ [][FairNext]_vars /\ WF_vars(Progress)

\* the terminal events emitted so far
TerminalEvents == { k \in 1..Len(events) : events[k].type \in {"done", "error"} }

\* the stream was closed by start after exactly one terminal event
ClosedAfterOneTerminal ==
    /\ stream = "closed"
    /\ Cardinality(TerminalEvents) = 1

\* C27 as stated: every opened stream eventually has exactly one terminal
\* event and is closed
C27_StreamTerminates ==
    (stream = "open") ~> ClosedAfterOneTerminal

\* C27 amended: every opened stream that the client does not cancel
\* eventually has exactly one terminal event and is closed, and start ends
\* in every case: no join and no await holds it forever
C27_StreamTerminatesUnlessCancelled ==
    /\ (stream = "open") ~> (ClosedAfterOneTerminal \/ stream = "cancelled")
    /\ (stream = "open") ~> (pc \in {"completed", "failed", "escaped"})
    /\ [](stream = "closed" => Cardinality(TerminalEvents) = 1)

\* a stream was closed after the join had waited for two detection tasks
C27_Witness ==
    /\ ClosedAfterOneTerminal
    /\ Len(detectionPromises) >= 2
    /\ pc = "completed"

\* C28: an error event is emitted only in turns without a persisted
\* assistant message: once the assistant message row exists, no error event
\* is on the stream and a stream that start closed ends with done
C28_ErrorOnlyWithoutAssistant ==
    assistantMessageId # "none" =>
        /\ \A k \in 1..Len(events) : events[k].type # "error"
        /\ stream = "closed" =>
              (events # <<>> /\ events[Len(events)].type = "done")



\* the total length of the content emitted so far in content events
RECURSIVE EmittedLength(_)
EmittedLength(evs) ==
    IF evs = <<>> THEN 0
    ELSE (IF Head(evs).type = "content" THEN Len(Head(evs).content) ELSE 0)
         + EmittedLength(Tail(evs))

\* C29: every pii_mask event emitted lies inside the content emitted so far
\* and carries the length of its span: 0 <= startOffset < endOffset <= total
\* length of the content events, originalLength = endOffset - startOffset
C29_MaskWithinEmitted ==
    \A k \in 1..Len(events) :
        events[k].type = "pii_mask" =>
            /\ 0 <= events[k].startOffset
            /\ events[k].startOffset < events[k].endOffset
            /\ events[k].endOffset <= EmittedLength(events)
            /\ events[k].originalLength = events[k].endOffset - events[k].startOffset

\* a mask event of a second batch was emitted, and more content after it
C29_Witness ==
    \E k \in 1..Len(events) : \E n \in 1..Len(events) :
        /\ events[k].type = "pii_mask"
        /\ events[k].startOffset > 0
        /\ k < n
        /\ events[n].type = "content"


(***************************************************************************)
(* SendMessageUseCase.execute, the non-streaming turn.  It keeps the same  *)
(* locals as the streaming use case (the user message, assistantContent,   *)
(* the token counts, the assistant message) and has no stream, no events   *)
(* and no detection; pc is the position of execute.                        *)
(***************************************************************************)
\* lines 60-66 of execute: the checks on the sanitized content
SendContentOutcome(p) ==
    IF Len(sanitizeInput(p.content)) = 0 THEN "ValidationError"
    ELSE IF Len(sanitizeInput(p.content)) > MaxMessageLength THEN "ValidationError"
    ELSE "none"


SendInit ==
    /\ params \in [content : ValidateContents, userId : {"u1"}]
    /\ conversation \in Conversations
    /\ limits \in [rateOk : BOOLEAN, quotaOk : BOOLEAN]
    /\ piiEnabled = FALSE
    /\ TurnInit
    /\ detectText = <<>>
    /\ detectReply = NoReply
    /\ detectResult = NoResult
    /\ detectPhase = "none"
    /\ LibIdle

\* what execute of SendMessageUseCase never touches
SendFrame ==
    /\ UNCHANGED <<stream, events, contentBuffer, sentOriginalLength, allDetections,
                   detectionPromises, persistCall, piiCost, pendingTracks>>
    /\ UNCHANGED inputVars
    /\ UNCHANGED detectorVars

\* an await of the try block rejects (lines 101-159): control is in the catch
\* block, at the call of deleteMessage (line 161)
SendCatch(cause) ==
    /\ error' = cause
    /\ pc' = "catchDelete"
    /\ UNCHANGED <<thrown, userMessage, deleteAttempted>>

\* execute is called: sanitizeInput and the checks on the content (lines
\* 60-66), then the call of findConversation (line 68)
SendExecute ==
    /\ pc = "idle"
    /\ LET outcome == SendContentOutcome(params)
       IN  IF outcome # "none"
           THEN pc' = "rejected" /\ thrown' = outcome
           ELSE pc' = "findConversation" /\ UNCHANGED thrown
    /\ UNCHANGED <<userMessage, providerCalled, assistantContent, tokens,
                   assistantMessageId, error, deleteAttempted, chunksDone,
                   conversation, messages>>
    /\ SendFrame

\* findConversation settles (line 68): the query failed, or it answered and
\* the checks, rateLimiter.enforce and the call of enforceQuota follow (lines
\* 69-89), the statements of the streaming use case
SendFindConversation == FindConversation

\* enforceQuota answers, then the call of createMessage (lines 88-94)
SendEnforceQuota == EnforceQuota

\* createMessage of the user message answers, outside the try block (lines
\* 94-99), then the call of findContextMessages (line 102)
SendCreateMessage == CreateMessage

\* findContextMessages answers, messages, and the call of the provider
\* (lines 102-112)
SendContext ==
    /\ pc = "findContextMessages"
    /\ \E ok \in BOOLEAN :
         IF ok
         THEN /\ messages' = PromptMessages(findContextMessages(conversation, ContextWindowSize),
                                            sanitizeInput(params.content))
              /\ pc' = "streaming"
              /\ providerCalled' = TRUE
              /\ UNCHANGED <<thrown, userMessage, error, deleteAttempted>>
         ELSE /\ SendCatch("persistence")
              /\ UNCHANGED <<providerCalled, messages>>
    /\ UNCHANGED <<assistantContent, tokens, assistantMessageId, chunksDone, conversation>>
    /\ SendFrame

\* one provider chunk with a content delta (lines 113-115)
SendContentChunk ==
    /\ pc = "streaming"
    /\ chunksDone < MaxChunks
    /\ chunksDone' = chunksDone + 1
    /\ \E c \in Deltas : assistantContent' = assistantContent \o c
    /\ UNCHANGED <<pc, thrown, userMessage, providerCalled, tokens, assistantMessageId,
                   error, deleteAttempted, conversation, messages>>
    /\ SendFrame

\* one provider chunk with usage (lines 116-119)
SendUsageChunk ==
    /\ pc = "streaming"
    /\ chunksDone < MaxChunks
    /\ chunksDone' = chunksDone + 1
    /\ tokens' = ProviderUsage
    /\ UNCHANGED <<pc, thrown, userMessage, providerCalled, assistantContent,
                   assistantMessageId, error, deleteAttempted, conversation, messages>>
    /\ SendFrame

\* the provider stream throws (for await, line 112)
SendProviderThrows ==
    /\ pc = "streaming"
    /\ SendCatch("provider")
    /\ UNCHANGED <<providerCalled, assistantContent, tokens, assistantMessageId,
                   chunksDone, conversation, messages>>
    /\ SendFrame

\* the provider stream ends; the token counts (lines 122-126) and the call
\* of createMessage (line 128)
SendProviderEnds ==
    /\ pc = "streaming"
    /\ pc' = "createAssistant"
    /\ tokens' = IF tokens.prompt = 0 /\ tokens.completion = 0
                 THEN [prompt     |-> EstimateTokenCount(messages),
                       completion |-> EstimateTokenCount(
                                          <<[role    |-> "assistant",
                                             content |-> assistantContent]>>)]
                 ELSE tokens
    /\ UNCHANGED <<thrown, userMessage, providerCalled, assistantContent,
                   assistantMessageId, error, deleteAttempted, chunksDone,
                   conversation, messages>>
    /\ SendFrame

\* createMessage of the assistant message answers (lines 128-133)
SendCreateAssistant ==
    /\ pc = "createAssistant"
    /\ \E ok \in BOOLEAN :
         IF ok
         THEN /\ assistantMessageId' = "m2"
              /\ conversation' = createMessage(conversation,
                                      [id |-> "m2", role |-> "assistant",
                                       content |-> assistantContent])
              /\ pc' = "updateUserTokens"
              /\ UNCHANGED <<thrown, userMessage, error, deleteAttempted>>
         ELSE /\ SendCatch("persistence")
              /\ UNCHANGED <<assistantMessageId, conversation>>
    /\ UNCHANGED <<providerCalled, assistantContent, tokens, chunksDone, messages>>
    /\ SendFrame

\* one of the awaits of lines 135-137, each of which may reject; after the
\* last one execute returns the two messages
SendAfterAssistant(here, next) ==
    /\ pc = here
    /\ \E ok \in BOOLEAN :
         IF ok
         THEN /\ pc' = next
              /\ UNCHANGED <<thrown, userMessage, error, deleteAttempted>>
         ELSE SendCatch("persistence")
    /\ UNCHANGED <<providerCalled, assistantContent, tokens, assistantMessageId,
                   chunksDone, conversation, messages>>
    /\ SendFrame

SendUpdateUserTokens == SendAfterAssistant("updateUserTokens", "trackUsage")
SendTrackUsage == SendAfterAssistant("trackUsage", "updateConversationTokens")
SendUpdateConversationTokens == SendAfterAssistant("updateConversationTokens", "completed")

\* the catch block (lines 160-164): deleteMessage of the user message
\* answers, its failure swallowed, then the error is rethrown
SendCatchDelete ==
    /\ pc = "catchDelete"
    /\ deleteAttempted' = TRUE
    /\ \E ok \in BOOLEAN :
         IF ok
         THEN /\ userMessage' = "deleted"
              /\ conversation' = deleteMessage(conversation, "m1")
         ELSE UNCHANGED <<userMessage, conversation>>
    /\ pc' = "rejected"
    /\ thrown' = "Error"
    /\ UNCHANGED <<providerCalled, assistantContent, tokens, assistantMessageId,
                   error, chunksDone, messages>>
    /\ SendFrame

SendNext ==
    \/ SendExecute
    \/ SendFindConversation
    \/ SendEnforceQuota
    \/ SendCreateMessage
    \/ ConcurrentTurnInserts
    \/ SendContext
    \/ SendContentChunk
    \/ SendUsageChunk
    \/ SendProviderThrows
    \/ SendProviderEnds
    \/ SendCreateAssistant
    \/ SendUpdateUserTokens
    \/ SendTrackUsage
    \/ SendUpdateConversationTokens
    \/ SendCatchDelete

SendSpec == SendInit /\ [][SendNext]_vars

\* C30: when execute rejects after the user message was created, no message
\* of the turn remains persisted, neither the user message nor an
\* assistant message
C30_NoMessageAfterReject ==
    (pc = "rejected" /\ deleteAttempted) =>
        /\ userMessage # "persisted"
        /\ assistantMessageId = "none"

\* when execute rejects after the user message was created, deletion of the
\* user message was attempted, and only of the user message; execute
\* resolves only with both messages persisted
RejectAttemptsUserDelete ==
    /\ (pc = "rejected" /\ userMessage # "none") => deleteAttempted
    /\ pc = "completed" => (userMessage = "persisted" /\ assistantMessageId = "m2")
=============================================================================
